---- MODULE Spec2Model ----
(***************************************************************************)
(* Credential store and WebAuthn ceremonies of the YubiKey seed-storage    *)
(* backend.                                                                *)
(*                                                                         *)
(* Part 1 models the SQLite-backed store (models/user.py,                  *)
(* models/yubikey.py), the WebAuthnService built on it                     *)
(* (services/webauthn_service.py) and the API routes that call them.       *)
(* Every execute_query(..., commit=True) is one atomic step; a request is  *)
(* a thread that runs such steps one after another and keeps the rows it   *)
(* has read in an in-memory copy (a YubiKey / User object).                *)
(***************************************************************************)
EXTENDS Naturals, FiniteSets, Sequences, TLC

Users == {"u1", "u2"}
CredIds == {"c1", "c2", "c3"}
Threads == {"t1", "t2"}

NoUser == "none"
NoCred == "none"

\* Largest max_yubikeys a user is created or updated with.
MaxKeys == 2
\* Largest signature counter the model lets a credential reach.
MaxCount == 2

VARIABLES
    users,      \* table users: user_id -> row
    yubikeys,   \* table yubikeys: credential_id -> row
    session,    \* the client's Flask session: session['webauthn_state']
    issued,     \* number of challenges drawn so far (each draw is a fresh value)
    th,         \* per request thread: program counter and in-memory objects
    credentials, \* the JSON credentials file of the file-backed WebAuthnManager
    now,        \* wall clock, in seconds
    hist,       \* history of the ceremonies (what was drawn, failed, completed)
    seeds,      \* table seeds: seed_id -> row
    yubikey_salts,       \* table yubikey_salts: the credentials that have a salt
    webauthn_challenges, \* table webauthn_challenges: the users with a challenge
    app_session,         \* app.py: the Flask session of each browser
    encrypted_seeds,     \* app.py: the users with an entry in the seeds file
    succeeded,           \* <<browser, user>>: an authentication has succeeded
    config,     \* config.yaml: key_derivation and master_key
    drawn,      \* number of os.urandom values drawn so far (each one is fresh)
    envelope,   \* the stored envelope of a seed
    made,       \* how the stored envelope was made: plaintext, secret, envelope
    result,     \* what the last decryption answered
    produced,   \* the salt and nonce of every envelope made so far
    committed,  \* the statements whose effect is committed to the database
    pending,    \* the statements in the open transaction of the connection
    calls,      \* number of calls of the DatabaseManager so far
    last,       \* the last execute_transaction: its queries and what it returned
    dbm,        \* the class DatabaseManager: _instance and its attributes
    _storage,   \* SecureMemoryManager._storage: key -> value
    _timers,    \* SecureMemoryManager._timers: key -> its threading.Timer
    _lock,      \* SecureMemoryManager._lock: free, or the thread that holds it
    timer       \* the threading.Timer threads started so far

vars == <<users, yubikeys, session, issued, th, credentials, now, hist,
          seeds, yubikey_salts, webauthn_challenges,
          app_session, encrypted_seeds, succeeded,
          config, drawn, envelope, made, result, produced,
          committed, pending, calls, last, dbm, _storage, _timers, _lock, timer>>
dbvars == <<users, yubikeys>>
filevars == <<credentials, now, hist>>
secretvars == <<seeds, yubikey_salts, webauthn_challenges>>
appvars == <<app_session, encrypted_seeds, succeeded>>
cryptovars == <<config, drawn, envelope, made, result, produced>>
txvars == <<committed, pending, calls, last>>
procvars == <<dbm, _storage, _timers, _lock, timer>>
memvars == <<_storage, _timers, _lock, timer>>

\* No db_path: of a thread that is not constructing, of no instance.
NoPath == "none"
\* class DatabaseManager before the first construction: _instance = None.
\* instances, inits and first are history: how many instances __new__ has
\* made, how many times the body of __init__ has run to its end, and the
\* db_path argument of the construction that made the instance; started and
\* returned: how many constructions have begun and have returned.
NoDatabaseManager ==
    [_instance |-> FALSE, _initialized |-> FALSE, db_path |-> NoPath,
     instances |-> 0, inits |-> 0, first |-> NoPath, started |-> 0,
     returned |-> 0]
\* SecureMemoryManager: the keys and values stored, None for "no entry" (what
\* dict.get returns for an absent key), and no key (the argument of clear()).
Keys == {"seed:1", "view:1"}
Values == {1, 2}
None == 0
NoStoreKey == "none"
\* Most Timer threads the model lets the stores start; timer i = 0 stands for
\* "no timer".  A Timer waits for its interval, is cancelled while it waits,
\* or has fired: it runs its function and is done.
MaxTimers == 2
NoTimer == [key |-> NoStoreKey, state |-> "none"]
\* The state of the process before anything is constructed or stored.
NoProcess ==
    /\ dbm = NoDatabaseManager
    /\ _storage = [key \in Keys |-> None]
    /\ _timers = [key \in Keys |-> 0]
    /\ _lock = "free"
    /\ timer = [i \in 1..MaxTimers |-> NoTimer]

\* An absent row of table users / yubikeys (rowid 0 is never assigned).
NoUserRow == [present |-> FALSE, max_yubikeys |-> 0]
NoRow == [rowid |-> 0, user_id |-> NoUser, sign_count |-> 0, is_primary |-> FALSE]
\* An in-memory YubiKey object: the columns read from its row.
NoKey == [user_id |-> NoUser, sign_count |-> 0, is_primary |-> FALSE]
KeyOf(row) == [user_id |-> row.user_id, sign_count |-> row.sign_count,
               is_primary |-> row.is_primary]
\* session['webauthn_state']; challenge 0 stands for no state.
NoState == [challenge |-> 0, user_id |-> NoUser]

\* app.py: the browsers that hold a session, and a session without keys.
Browsers == {"b1", "b2"}
NoBrowser == "none"
NoSession == [auth_user_id |-> NoUser, authenticated_user_id |-> NoUser,
              authenticated |-> FALSE, username |-> NoUser]

SeedIds == {"s1", "s2"}
\* A row of seeds; user_id = NoUser stands for "no such row".  last_accessed
\* counts the times it was set, up to MaxAccess; encrypted_seed numbers the
\* envelopes, 0 stands for none.
NoSeed == [user_id |-> NoUser, last_accessed |-> 0, encrypted_seed |-> 0]
NoSeedId == "none"
MaxAccess == 2

Present(row) == row.rowid # 0

Max(S) == CHOOSE x \in S : \A y \in S : y <= x

\* The credentials file: {"users": {user_id: {...}}, "challenges": {user_id:
\* challenge}}; challenge 0 stands for no entry.
NoCredential == [registered |-> FALSE, sign_count |-> 0]
EmptyFile == [users |-> [u \in Users |-> NoCredential],
              challenges |-> [u \in Users |-> 0]]

\* A thread between requests.  op, cid, uid, p, n: the request and its
\* arguments; y: the YubiKey object; o: a second credential id; m: the
\* max_yubikeys of the User object; acc: what update_sign_count returned;
\* res: the result of the request.  f: the credentials file as json.load
\* returned it; rc: the challenge the response was made over; at: the time
\* the request arrived; again: a verification over rc had failed by then;
\* wrote: a statement of this request's set_as_primary, or the first
\* statement of its YubiKey.create, has changed a row;
\* err: the kind of error a failed request ended with, where it is recorded;
\* sid: the browser whose session cookie the request carries; seed_id, seed:
\* the seed a request names and the Seed object read from its row; db_path:
\* the argument of a construction of the DatabaseManager; key, value: the
\* arguments of a call of the SecureMemoryManager, and the value get returned.
Idle == [pc |-> "idle", op |-> "none", cid |-> NoCred, uid |-> NoUser, y |-> NoKey,
         o |-> NoCred, p |-> FALSE, n |-> 0, m |-> 0, acc |-> FALSE, res |-> FALSE,
         f |-> EmptyFile, rc |-> 0, at |-> 0, again |-> FALSE,
         wrote |-> FALSE, err |-> "none", sid |-> NoBrowser,
         seed_id |-> NoSeedId, seed |-> NoSeed, db_path |-> NoPath,
         key |-> NoStoreKey, value |-> None]

At(t, label) == th[t].pc = label
Goto(t, rec) == th' = [th EXCEPT ![t] = rec]
\* The request ends with result r; the thread keeps the request's arguments
\* (not its objects) until Return.
Done(t, r) ==
    Goto(t, [Idle EXCEPT !.pc = "done", !.op = th[t].op, !.cid = th[t].cid,
                         !.uid = th[t].uid, !.p = th[t].p, !.n = th[t].n,
                         !.acc = th[t].acc, !.sid = th[t].sid,
                         !.seed_id = th[t].seed_id, !.res = r])
\* The request ends in failure with an error of kind e.
Fail(t, e) ==
    Goto(t, [Idle EXCEPT !.pc = "done", !.op = th[t].op, !.cid = th[t].cid,
                         !.uid = th[t].uid, !.p = th[t].p, !.n = th[t].n,
                         !.acc = th[t].acc, !.sid = th[t].sid,
                         !.seed_id = th[t].seed_id, !.err = e])
Call(t, name, c, u) ==
    [Idle EXCEPT !.pc = name, !.op = name, !.cid = c, !.uid = u]

-----------------------------------------------------------------------------
(* models/user.py *)

\* SELECT COUNT(*) FROM yubikeys WHERE user_id = ?
UserKeys(db, u) == {c \in CredIds : Present(db[c]) /\ db[c].user_id = u}
count_yubikeys(u) == Cardinality(UserKeys(yubikeys, u))

\* User.can_register_yubikey on a User object that carries max_yubikeys = m.
can_register_yubikey(u, m) == count_yubikeys(u) < m

\* User.create(username, max_yubikeys)
User_create(u, m) ==
    /\ ~users[u].present
    /\ users' = [users EXCEPT ![u] = [present |-> TRUE, max_yubikeys |-> m]]
    /\ UNCHANGED <<yubikeys, session, issued, th, filevars, secretvars, appvars, cryptovars, txvars, procvars>>

\* user.max_yubikeys = m; user.update()
User_update(u, m) ==
    /\ users[u].present
    /\ users[u].max_yubikeys # m
    /\ users' = [users EXCEPT ![u].max_yubikeys = m]
    /\ UNCHANGED <<yubikeys, session, issued, th, filevars, secretvars, appvars, cryptovars, txvars, procvars>>

\* Only the order of the rowids is observable (the order in which a SELECT
\* returns the rows), so the table is kept with rowids 1..n in that order.
Compact(db) ==
    [c \in CredIds |->
        IF Present(db[c])
        THEN [db[c] EXCEPT !.rowid =
                 Cardinality({d \in CredIds : Present(db[d]) /\ db[d].rowid <= db[c].rowid})]
        ELSE db[c]]

\* User.delete: DELETE FROM users; the foreign keys cascade to yubikeys and
\* seeds, and from yubikeys to yubikey_salts.  (The tables wrapped_keys and
\* challenges of the schema are written by no code and stay empty;
\* webauthn_challenges is created without a foreign key.)
User_delete(u) ==
    /\ users[u].present
    /\ users' = [users EXCEPT ![u] = NoUserRow]
    /\ yubikeys' = Compact([c \in CredIds |->
                      IF yubikeys[c].user_id = u THEN NoRow ELSE yubikeys[c]])
    /\ seeds' = [s \in SeedIds |-> IF seeds[s].user_id = u THEN NoSeed ELSE seeds[s]]
    /\ yubikey_salts' = {c \in yubikey_salts : yubikeys[c].user_id # u}
    /\ UNCHANGED <<session, issued, th, filevars, webauthn_challenges, appvars, cryptovars, txvars, procvars>>

\* Seed.create(user_id, encrypted_seed, metadata): seed_id is a fresh uuid;
\* User.get_by_id, then INSERT INTO seeds (commit), which the foreign key
\* refuses for a user that is not stored.
Seed_create(s, u) ==
    /\ seeds[s] = NoSeed
    /\ users[u].present
    /\ seeds' = [seeds EXCEPT ![s] = [user_id |-> u, last_accessed |-> 0,
                                     encrypted_seed |-> 1]]
    /\ UNCHANGED <<dbvars, session, issued, th, filevars, yubikey_salts,
                   webauthn_challenges, appvars, cryptovars, txvars, procvars>>

\* A lookup that hands every stored seed to the route.
Seed_get_by_id_unchecked(t) ==
    /\ At(t, "Seed_get_by_id")
    /\ LET seed == seeds[th[t].seed_id] IN
       IF seed = NoSeed THEN Fail(t, "NotFound")
       ELSE Goto(t, [th[t] EXCEPT
                !.pc = IF th[t].op = "delete_seed" THEN "Seed_delete"
                       ELSE IF th[t].op = "update_seed" THEN "Seed_update"
                       ELSE "Seed_update_last_accessed",
                !.seed = IF th[t].op = "update_seed"
                         THEN [seed EXCEPT !.encrypted_seed = th[t].n]
                         ELSE seed])
    /\ UNCHANGED <<dbvars, session, issued, filevars, secretvars, appvars, cryptovars, txvars, procvars>>

\* Seed.get_by_id(seed_id) as the routes of seed_routes.py use it: None ->
\* 404; a seed of another user than g.user -> 403; otherwise the route goes
\* on with the Seed object.
Seed_get_by_id(t) ==
    /\ At(t, "Seed_get_by_id")
    /\ LET seed == seeds[th[t].seed_id] IN
       IF seed = NoSeed THEN Fail(t, "NotFound")
       ELSE IF seed.user_id # th[t].uid THEN Fail(t, "Forbidden")
       ELSE Goto(t, [th[t] EXCEPT
                !.pc = IF th[t].op = "delete_seed" THEN "Seed_delete"
                       ELSE IF th[t].op = "update_seed" THEN "Seed_update"
                       ELSE "Seed_update_last_accessed",
                !.seed = IF th[t].op = "update_seed"
                         THEN [seed EXCEPT !.encrypted_seed = th[t].n]
                         ELSE seed])
    /\ UNCHANGED <<dbvars, session, issued, filevars, secretvars, appvars, cryptovars, txvars, procvars>>

\* Seed.update(): UPDATE seeds SET encrypted_seed = ?, last_accessed = ?,
\* metadata = ? WHERE seed_id = ? (commit), with the object's values.
SeedsAfterUpdate(seed_id, seed) ==
    IF seeds[seed_id] = NoSeed THEN seeds
    ELSE [seeds EXCEPT ![seed_id].encrypted_seed = seed.encrypted_seed,
                       ![seed_id].last_accessed = seed.last_accessed]

\* Seed.update_last_accessed(): self.last_accessed = datetime.now(); update().
\* The clock of last_accessed is the largest value stored so far plus one.
Seed_update_last_accessed(t) ==
    /\ At(t, "Seed_update_last_accessed")
    /\ LET latest == Max({seeds[s].last_accessed : s \in SeedIds}) IN
       /\ latest < MaxAccess
       /\ seeds' = SeedsAfterUpdate(th[t].seed_id,
                                    [th[t].seed EXCEPT !.last_accessed = latest + 1])
    /\ Done(t, TRUE)
    /\ UNCHANGED <<dbvars, session, issued, filevars, yubikey_salts,
                   webauthn_challenges, appvars, cryptovars, txvars, procvars>>

\* update_seed: seed.encrypted_seed = encrypt_seed(...); seed.update()
Seed_update(t) ==
    /\ At(t, "Seed_update")
    /\ seeds' = SeedsAfterUpdate(th[t].seed_id, th[t].seed)
    /\ Done(t, TRUE)
    /\ UNCHANGED <<dbvars, session, issued, filevars, yubikey_salts,
                   webauthn_challenges, appvars, cryptovars, txvars, procvars>>

\* Seed.delete(): DELETE FROM seeds WHERE seed_id = ? (commit)
Seed_delete(t) ==
    /\ At(t, "Seed_delete")
    /\ seeds' = [seeds EXCEPT ![th[t].seed_id] = NoSeed]
    /\ Done(t, TRUE)
    /\ UNCHANGED <<dbvars, session, issued, filevars, yubikey_salts,
                   webauthn_challenges, appvars, cryptovars, txvars, procvars>>

\* YubiKeySalt.create(credential_id, salt, purpose): the credential must be
\* stored; INSERT INTO yubikey_salts (commit).
YubiKeySalt_create(c) ==
    /\ Present(yubikeys[c])
    /\ yubikey_salts' = yubikey_salts \cup {c}
    /\ UNCHANGED <<dbvars, session, issued, th, filevars, seeds, webauthn_challenges,
                   appvars, cryptovars, txvars, procvars>>

-----------------------------------------------------------------------------
(* models/yubikey.py *)

\* SQLite gives a new row the rowid max(rowid) + 1.
NextRowid(db) == 1 + Max({db[c].rowid : c \in CredIds})

\* UPDATE yubikeys SET is_primary = 0 WHERE user_id = ?
ClearPrimary(db, u) ==
    [c \in CredIds |->
        IF Present(db[c]) /\ db[c].user_id = u
        THEN [db[c] EXCEPT !.is_primary = FALSE] ELSE db[c]]

\* UPDATE yubikeys SET is_primary = 1 WHERE credential_id = ?
SetPrimary(db, c) ==
    IF Present(db[c]) THEN [db EXCEPT ![c].is_primary = TRUE] ELSE db

\* YubiKey.update: UPDATE yubikeys SET sign_count = ?, is_primary = ?, ...
\* WHERE credential_id = ?, all columns taken from the in-memory object y.
UpdateRow(db, c, y) ==
    IF Present(db[c])
    THEN [db EXCEPT ![c].sign_count = y.sign_count, ![c].is_primary = y.is_primary]
    ELSE db

\* DELETE FROM yubikeys WHERE credential_id = ?
DeleteRow(db, c) == Compact([db EXCEPT ![c] = NoRow])

\* The first row of YubiKey.get_yubikeys_by_user_id among S, in table order.
FirstKey(db, S) == CHOOSE c \in S : \A d \in S : db[c].rowid <= db[d].rowid

\* YubiKey.create(credential_id, user_id, ..., is_primary): call.
YubiKey_create(t, c, u, p) ==
    /\ At(t, "idle")
    /\ Goto(t, [Call(t, "create", c, u) EXCEPT !.pc = "create_get_user", !.p = p])
    /\ UNCHANGED <<dbvars, session, issued, filevars, secretvars, appvars, cryptovars, txvars, procvars>>

\* user = User.get_by_id(user_id); None -> return None
create_get_user(t) ==
    /\ At(t, "create_get_user")
    /\ IF users[th[t].uid].present
       THEN Goto(t, [th[t] EXCEPT !.pc = "create_can_register",
                                  !.m = users[th[t].uid].max_yubikeys])
       ELSE Done(t, FALSE)
    /\ UNCHANGED <<dbvars, session, issued, filevars, secretvars, appvars, cryptovars, txvars, procvars>>

\* if not user.can_register_yubikey(): return None
create_can_register(t) ==
    /\ At(t, "create_can_register")
    /\ IF can_register_yubikey(th[t].uid, th[t].m)
       THEN Goto(t, [th[t] EXCEPT !.pc = IF th[t].p THEN "create_unset_primary"
                                                   ELSE "create_insert"])
       ELSE Done(t, FALSE)
    /\ UNCHANGED <<dbvars, session, issued, filevars, secretvars, appvars, cryptovars, txvars, procvars>>

\* if is_primary: UPDATE yubikeys SET is_primary = 0 WHERE user_id = ? (commit)
create_unset_primary(t) ==
    /\ At(t, "create_unset_primary")
    /\ yubikeys' = ClearPrimary(yubikeys, th[t].uid)
    /\ Goto(t, [th[t] EXCEPT !.pc = "create_insert",
                             !.wrote = (yubikeys' # yubikeys)])
    /\ UNCHANGED <<users, session, issued, filevars, secretvars, appvars, cryptovars, txvars, procvars>>

\* INSERT INTO yubikeys ... (commit); a duplicate credential_id or a missing
\* user row raises, and create returns None.
create_insert(t) ==
    /\ At(t, "create_insert")
    /\ IF ~Present(yubikeys[th[t].cid]) /\ users[th[t].uid].present
       THEN /\ yubikeys' = [yubikeys EXCEPT ![th[t].cid] =
                              [rowid |-> NextRowid(yubikeys), user_id |-> th[t].uid,
                               sign_count |-> 0, is_primary |-> th[t].p]]
            /\ Done(t, TRUE)
       ELSE /\ UNCHANGED yubikeys
            /\ Done(t, FALSE)
    /\ UNCHANGED <<users, session, issued, filevars, secretvars, appvars, cryptovars, txvars, procvars>>

\* get_by_credential_id with the "not found" check only.
GetUnchecked(t, next) ==
    LET row == yubikeys[th[t].cid] IN
    IF Present(row)
    THEN Goto(t, [th[t] EXCEPT !.pc = next, !.y = KeyOf(row)])
    ELSE Done(t, FALSE)

\* YubiKey.get_by_credential_id followed by the caller's checks "not found"
\* and "belongs to another user"; on success the object is kept and the
\* request goes on at label next.
GetOwned(t, next) ==
    LET row == yubikeys[th[t].cid] IN
    IF Present(row) /\ row.user_id = th[t].uid
    THEN Goto(t, [th[t] EXCEPT !.pc = next, !.y = KeyOf(row)])
    ELSE Done(t, FALSE)

\* YubiKey.set_as_primary, first statement:
\* UPDATE yubikeys SET is_primary = 0 WHERE user_id = ? (commit)
set_as_primary_unset(t) ==
    /\ At(t, "set_as_primary_unset")
    /\ yubikeys' = ClearPrimary(yubikeys, th[t].uid)
    /\ Goto(t, [th[t] EXCEPT !.pc = "set_as_primary_set",
                             !.wrote = (yubikeys' # yubikeys)])
    /\ UNCHANGED <<users, session, issued, filevars, secretvars, appvars, cryptovars, txvars, procvars>>

\* YubiKey.set_as_primary, second statement:
\* UPDATE yubikeys SET is_primary = 1 WHERE credential_id = ? (commit).
\* Called by set_primary_yubikey it ends the request; called by
\* revoke_yubikey on the other key, the request goes on to yubikey.delete().
set_as_primary_set(t) ==
    /\ At(t, "set_as_primary_set")
    /\ yubikeys' = SetPrimary(yubikeys, th[t].o)
    /\ IF th[t].op = "revoke_yubikey"
       THEN Goto(t, [th[t] EXCEPT !.pc = "delete_list"])
       ELSE Done(t, TRUE)
    /\ UNCHANGED <<users, session, issued, filevars, secretvars, appvars, cryptovars, txvars, procvars>>

\* YubiKey.set_as_primary: a statement raises (sqlite3.Error, e.g. the
\* database is locked by another connection) and "except Exception: return
\* False" ends the call; what an earlier statement committed stays committed.
\* revoke_yubikey does not read the result and goes on to yubikey.delete().
set_as_primary_raises(t) ==
    /\ th[t].pc \in {"set_as_primary_unset", "set_as_primary_set"}
    /\ IF th[t].op = "revoke_yubikey"
       THEN Goto(t, [th[t] EXCEPT !.pc = "delete_list"])
       ELSE Done(t, FALSE)
    /\ UNCHANGED <<dbvars, session, issued, filevars, secretvars, appvars, cryptovars, txvars, procvars>>

\* YubiKey.delete: yubikeys = get_yubikeys_by_user_id(self.user_id) and the
\* two refusals (the only key; the primary key with no other primary).
delete_list(t) ==
    /\ At(t, "delete_list")
    /\ LET keys == UserKeys(yubikeys, th[t].y.user_id)
           has_other_primary ==
               \E c \in keys : c # th[t].cid /\ yubikeys[c].is_primary
       IN  IF Cardinality(keys) <= 1 THEN Done(t, FALSE)
           ELSE IF th[t].y.is_primary /\ ~has_other_primary THEN Done(t, FALSE)
           ELSE Goto(t, [th[t] EXCEPT !.pc = "delete_delete"])
    /\ UNCHANGED <<dbvars, session, issued, filevars, secretvars, appvars, cryptovars, txvars, procvars>>

\* YubiKey.delete: DELETE FROM yubikeys WHERE credential_id = ? (commit),
\* which cascades to yubikey_salts; return cursor.rowcount > 0
delete_delete(t) ==
    /\ At(t, "delete_delete")
    /\ yubikeys' = DeleteRow(yubikeys, th[t].cid)
    /\ yubikey_salts' = yubikey_salts \ {th[t].cid}
    /\ Done(t, Present(yubikeys[th[t].cid]))
    /\ UNCHANGED <<users, session, issued, filevars, seeds, webauthn_challenges,
                   appvars, cryptovars, txvars, procvars>>

\* YubiKey.update_sign_count(new_count) on the object y: the comparison with
\* the object's own counter, then self.update(); the caller goes on at next.
update_sign_count(t, new_count, next) ==
    IF new_count <= th[t].y.sign_count
    THEN /\ Goto(t, [th[t] EXCEPT !.pc = next, !.acc = FALSE])
         /\ UNCHANGED yubikeys
    ELSE /\ yubikeys' = UpdateRow(yubikeys, th[t].cid,
                                  [th[t].y EXCEPT !.sign_count = new_count])
         /\ Goto(t, [th[t] EXCEPT !.pc = next, !.acc = TRUE,
                                  !.y.sign_count = new_count])

-----------------------------------------------------------------------------
(* api/yubikey.py *)

\* POST /api/yubikey/<credential_id>/set-primary, g.user_id = u
api_set_primary_yubikey(t, c, u) ==
    /\ At(t, "idle")
    /\ Goto(t, [Call(t, "api_set_primary", c, u) EXCEPT !.pc = "api_set_primary_get"])
    /\ UNCHANGED <<dbvars, session, issued, filevars, secretvars, appvars, cryptovars, txvars, procvars>>

api_set_primary_get(t) ==
    /\ At(t, "api_set_primary_get")
    /\ GetOwned(t, "api_set_primary_update")
    /\ UNCHANGED <<dbvars, session, issued, filevars, secretvars, appvars, cryptovars, txvars, procvars>>

\* yubikey.is_primary = True; yubikey.update()
api_set_primary_update(t) ==
    /\ At(t, "api_set_primary_update")
    /\ yubikeys' = UpdateRow(yubikeys, th[t].cid, [th[t].y EXCEPT !.is_primary = TRUE])
    /\ Done(t, TRUE)
    /\ UNCHANGED <<users, session, issued, filevars, secretvars, appvars, cryptovars, txvars, procvars>>

\* PATCH /api/yubikey/<credential_id>/update (a new nickname), g.user_id = u
api_update_yubikey(t, c, u) ==
    /\ At(t, "idle")
    /\ Goto(t, [Call(t, "api_update", c, u) EXCEPT !.pc = "api_update_get"])
    /\ UNCHANGED <<dbvars, session, issued, filevars, secretvars, appvars, cryptovars, txvars, procvars>>

api_update_get(t) ==
    /\ At(t, "api_update_get")
    /\ GetOwned(t, "api_update_update")
    /\ UNCHANGED <<dbvars, session, issued, filevars, secretvars, appvars, cryptovars, txvars, procvars>>

\* yubikey.nickname = nickname; yubikey.update()
api_update_update(t) ==
    /\ At(t, "api_update_update")
    /\ yubikeys' = UpdateRow(yubikeys, th[t].cid, th[t].y)
    /\ Done(t, TRUE)
    /\ UNCHANGED <<users, session, issued, filevars, secretvars, appvars, cryptovars, txvars, procvars>>

\* DELETE /api/yubikey/<credential_id>, g.user_id = u
api_delete_yubikey(t, c, u) ==
    /\ At(t, "idle")
    /\ Goto(t, [Call(t, "api_delete", c, u) EXCEPT !.pc = "api_delete_get"])
    /\ UNCHANGED <<dbvars, session, issued, filevars, secretvars, appvars, cryptovars, txvars, procvars>>

api_delete_get(t) ==
    /\ At(t, "api_delete_get")
    /\ GetOwned(t, "delete_list")
    /\ UNCHANGED <<dbvars, session, issued, filevars, secretvars, appvars, cryptovars, txvars, procvars>>

-----------------------------------------------------------------------------
(* services/webauthn_service.py *)

\* WebAuthnService.verify_registration_response(credential, state): call.
verify_registration_response(t, c, u) ==
    /\ At(t, "idle")
    /\ Goto(t, [Call(t, "register", c, u) EXCEPT !.pc = "register_list"])
    /\ UNCHANGED <<dbvars, session, issued, filevars, secretvars, appvars, cryptovars, txvars, procvars>>

\* existing_yubikeys = YubiKey.get_by_user_id(user_id);
\* is_primary = len(existing_yubikeys) == 0; then YubiKey.create(...).
register_list(t) ==
    /\ At(t, "register_list")
    /\ Goto(t, [th[t] EXCEPT !.pc = "create_get_user",
                             !.p = (count_yubikeys(th[t].uid) = 0)])
    /\ UNCHANGED <<dbvars, session, issued, filevars, secretvars, appvars, cryptovars, txvars, procvars>>

\* Largest number of challenges drawn.
MaxChal == 2

\* WebAuthnService.generate_registration_options(user_id, username): call.
generate_registration_options(t, u) ==
    /\ At(t, "idle")
    /\ Goto(t, [Call(t, "begin_registration", NoCred, u) EXCEPT !.pc = "begin_get_user"])
    /\ UNCHANGED <<dbvars, session, issued, filevars, secretvars, appvars, cryptovars, txvars, procvars>>

\* user = User.get_by_id(user_id); None -> ValueError
begin_get_user(t) ==
    /\ At(t, "begin_get_user")
    /\ IF users[th[t].uid].present
       THEN Goto(t, [th[t] EXCEPT !.pc = "begin_can_register",
                                  !.m = users[th[t].uid].max_yubikeys])
       ELSE Done(t, FALSE)
    /\ UNCHANGED <<dbvars, session, issued, filevars, secretvars, appvars, cryptovars, txvars, procvars>>

\* if not user.can_register_yubikey(): ValueError; otherwise the challenge
\* is drawn (os.urandom(32)) and the route keeps the state returned.
begin_can_register(t) ==
    /\ At(t, "begin_can_register")
    /\ IF can_register_yubikey(th[t].uid, th[t].m)
       THEN /\ issued < MaxChal
            /\ issued' = issued + 1
            /\ session' = [challenge |-> issued + 1, user_id |-> th[t].uid]
            /\ Done(t, TRUE)
       ELSE /\ UNCHANGED <<session, issued>>
            /\ Done(t, FALSE)
    /\ UNCHANGED <<dbvars, filevars, secretvars, appvars, cryptovars, txvars, procvars>>

\* WebAuthnService.set_primary_yubikey(user_id, credential_id): call.
set_primary_yubikey(t, c, u) ==
    /\ At(t, "idle")
    /\ Goto(t, [Call(t, "set_primary_yubikey", c, u) EXCEPT
                   !.pc = "set_primary_get", !.o = c])
    /\ UNCHANGED <<dbvars, session, issued, filevars, secretvars, appvars, cryptovars, txvars, procvars>>

set_primary_get(t) ==
    /\ At(t, "set_primary_get")
    /\ GetOwned(t, "set_as_primary_unset")
    /\ UNCHANGED <<dbvars, session, issued, filevars, secretvars, appvars, cryptovars, txvars, procvars>>

\* WebAuthnService.revoke_yubikey(user_id, credential_id): call.
revoke_yubikey(t, c, u) ==
    /\ At(t, "idle")
    /\ Goto(t, [Call(t, "revoke_yubikey", c, u) EXCEPT !.pc = "revoke_get"])
    /\ UNCHANGED <<dbvars, session, issued, filevars, secretvars, appvars, cryptovars, txvars, procvars>>

revoke_get(t) ==
    /\ At(t, "revoke_get")
    /\ GetOwned(t, "revoke_list")
    /\ UNCHANGED <<dbvars, session, issued, filevars, secretvars, appvars, cryptovars, txvars, procvars>>

\* yubikeys = YubiKey.get_by_user_id(user_id); the only key -> False; a
\* primary key: the first other key of the list is promoted before the delete.
revoke_list(t) ==
    /\ At(t, "revoke_list")
    /\ LET keys == UserKeys(yubikeys, th[t].uid)
           others == keys \ {th[t].cid}
       IN  IF Cardinality(keys) = 1 THEN Done(t, FALSE)
           ELSE IF th[t].y.is_primary /\ others # {}
           THEN Goto(t, [th[t] EXCEPT !.pc = "set_as_primary_unset",
                                      !.o = FirstKey(yubikeys, others)])
           ELSE Goto(t, [th[t] EXCEPT !.pc = "delete_list"])
    /\ UNCHANGED <<dbvars, session, issued, filevars, secretvars, appvars, cryptovars, txvars, procvars>>

\* WebAuthnService.generate_authentication_options(user_id) and the route
\* that keeps its state: session['webauthn_state'] = state.  os.urandom(32)
\* is a value never drawn before.
generate_authentication_options(u) ==
    /\ users[u].present
    /\ count_yubikeys(u) > 0
    /\ issued < MaxChal
    /\ issued' = issued + 1
    /\ session' = [challenge |-> issued + 1, user_id |-> u]
    /\ UNCHANGED <<dbvars, th, filevars, secretvars, appvars, cryptovars, txvars, procvars>>

\* POST authenticate/complete: state = session.get('webauthn_state'), absent
\* -> 400; otherwise WebAuthnService.verify_authentication_response(
\* credential, state).  The response names credential c, was made over
\* challenge rc and carries authenticatorData or not (a).
verify_authentication_response(t, c, rc, a) ==
    /\ At(t, "idle")
    /\ session # NoState
    /\ Goto(t, [Call(t, "authenticate", c, session.user_id) EXCEPT
                   !.pc = "authenticate_get", !.n = rc, !.p = a])
    /\ UNCHANGED <<dbvars, session, issued, filevars, secretvars, appvars, cryptovars, txvars, procvars>>

\* POST authenticate/complete (or authenticate/verify) without a stored
\* state: "Authentication session expired", 400, before the service is called.
verify_authentication_no_state(t, c) ==
    /\ At(t, "idle")
    /\ session = NoState
    /\ Goto(t, [Idle EXCEPT !.pc = "done", !.op = "authenticate", !.cid = c,
                            !.err = "ChallengeExpired"])
    /\ UNCHANGED <<dbvars, session, issued, filevars, secretvars, appvars, cryptovars, txvars, procvars>>

\* The lookup without the check of the owner.
authenticate_get_unchecked(t) ==
    /\ At(t, "authenticate_get")
    /\ GetUnchecked(t, IF th[t].p THEN "authenticate_sign_count" ELSE "authenticate_user")
    /\ UNCHANGED <<dbvars, session, issued, filevars, secretvars, appvars, cryptovars, txvars, procvars>>

\* yubikey = YubiKey.get_by_credential_id(credential_id); unknown or owned by
\* another user -> {'success': False}
authenticate_get(t) ==
    /\ At(t, "authenticate_get")
    /\ GetOwned(t, IF th[t].p THEN "authenticate_sign_count" ELSE "authenticate_user")
    /\ UNCHANGED <<dbvars, session, issued, filevars, secretvars, appvars, cryptovars, txvars, procvars>>

\* if 'authenticatorData' in credential['response']:
\*     yubikey.update_sign_count(yubikey.sign_count + 1)   (result not read)
authenticate_sign_count(t) ==
    /\ At(t, "authenticate_sign_count")
    /\ th[t].y.sign_count < MaxCount
    /\ update_sign_count(t, th[t].y.sign_count + 1, "authenticate_user")
    /\ UNCHANGED <<users, session, issued, filevars, secretvars, appvars, cryptovars, txvars, procvars>>

\* user = User.get_by_id(user_id); a missing user makes update_last_login
\* raise, and the route answers 500.
authenticate_user(t) ==
    /\ At(t, "authenticate_user")
    /\ IF users[th[t].uid].present
       THEN Goto(t, [th[t] EXCEPT !.pc = "authenticate_last_login",
                                  !.m = users[th[t].uid].max_yubikeys])
       ELSE Done(t, FALSE)
    /\ UNCHANGED <<dbvars, session, issued, filevars, secretvars, appvars, cryptovars, txvars, procvars>>

\* user.update_last_login(): UPDATE users SET username = ?, last_login = ?,
\* max_yubikeys = ? WHERE user_id = ? from the User object.
authenticate_last_login(t) ==
    /\ At(t, "authenticate_last_login")
    /\ users' = IF users[th[t].uid].present
                THEN [users EXCEPT ![th[t].uid].max_yubikeys = th[t].m]
                ELSE users
    /\ Goto(t, [th[t] EXCEPT !.pc = "authenticate_success"])
    /\ UNCHANGED <<yubikeys, session, issued, filevars, secretvars, appvars, cryptovars, txvars, procvars>>

\* result['success']: the route clears session['webauthn_state'] and issues
\* the token / session for result['user_id'].
authenticate_success(t) ==
    /\ At(t, "authenticate_success")
    /\ session' = NoState
    /\ Done(t, TRUE)
    /\ UNCHANGED <<dbvars, issued, filevars, secretvars, appvars, cryptovars, txvars, procvars>>

-----------------------------------------------------------------------------
(* utils/security.py: WebAuthnManager on the credential store *)

\* WebAuthnManager._update_sign_count(user_id, new_sign_count): call.
WebAuthnManager_update_sign_count(t, u, new_sign_count) ==
    /\ At(t, "idle")
    /\ Goto(t, [Call(t, "_update_sign_count", NoCred, u) EXCEPT
                   !.pc = "_update_sign_count_list", !.n = new_sign_count])
    /\ UNCHANGED <<dbvars, session, issued, filevars, secretvars, appvars, cryptovars, txvars, procvars>>

\* yubikeys = YubiKey.get_yubikeys_by_user_id(user_id); none -> return;
\* yubikey = yubikeys[0]
_update_sign_count_list(t) ==
    /\ At(t, "_update_sign_count_list")
    /\ LET keys == UserKeys(yubikeys, th[t].uid) IN
       IF keys = {} THEN Done(t, FALSE)
       ELSE LET c == FirstKey(yubikeys, keys) IN
            Goto(t, [th[t] EXCEPT !.pc = "_update_sign_count_update",
                                  !.cid = c, !.y = KeyOf(yubikeys[c])])
    /\ UNCHANGED <<dbvars, session, issued, filevars, secretvars, appvars, cryptovars, txvars, procvars>>

\* yubikey.update_sign_count(new_sign_count)
_update_sign_count_update(t) ==
    /\ At(t, "_update_sign_count_update")
    /\ update_sign_count(t, th[t].n, "_update_sign_count_return")
    /\ UNCHANGED <<users, session, issued, filevars, secretvars, appvars, cryptovars, txvars, procvars>>

_update_sign_count_return(t) ==
    /\ At(t, "_update_sign_count_return")
    /\ Done(t, th[t].acc)
    /\ UNCHANGED <<dbvars, session, issued, filevars, secretvars, appvars, cryptovars, txvars, procvars>>

\* WebAuthnManager.verify_registration_response(user_id, response):
\* challenge = self._get_challenge(user_id), outside the try block.
\* _get_challenge takes the Cursor that execute_query returns for the row
\* list: "if not result" is never true for a Cursor and result[0] raises
\* TypeError (sqlite3.OperationalError when the table was never created), so
\* the call ends there with that exception whether a challenge is stored or not.
security_verify_registration_response(t, u) ==
    /\ At(t, "idle")
    /\ Goto(t, [Idle EXCEPT !.pc = "done", !.uid = u, !.err = "TypeError",
                            !.op = "security_verify_registration_response"])
    /\ UNCHANGED <<dbvars, session, issued, filevars, secretvars, appvars, cryptovars, txvars, procvars>>

\* WebAuthnManager.generate_authentication_options(user_id):
\* get_user_credential (none -> ValueError), then _store_challenge:
\* INSERT OR REPLACE INTO webauthn_challenges (user_id, challenge).
security_generate_authentication_options(u) ==
    /\ UserKeys(yubikeys, u) # {}
    /\ webauthn_challenges' = webauthn_challenges \cup {u}
    /\ UNCHANGED <<dbvars, session, issued, th, filevars, seeds, yubikey_salts,
                   appvars, cryptovars, txvars, procvars>>

-----------------------------------------------------------------------------
(* yubikey_utils.py: WebAuthnManager on the JSON credentials file.  Every   *)
(* helper loads the whole file, changes the dictionary and dumps it back:   *)
(* the load and the dump are separate steps.                                *)

\* timeout=60000: the ceremony lasts 60 seconds.
CeremonyTTL == 60
\* The clock advances in steps of TickStep up to MaxTime.
TickStep == 40
MaxTime == 80
\* hist.uses counts up to MaxUses.
MaxUses == 2

Min(a, b) == IF a <= b THEN a ELSE b

Tick ==
    /\ now + TickStep <= MaxTime
    /\ now' = now + TickStep
    /\ UNCHANGED <<dbvars, session, issued, th, credentials, hist, secretvars, appvars, cryptovars, txvars, procvars>>

\* webauthn.verify_registration_response(credential, expected_challenge, ...):
\* the response must be made over the expected challenge and carry a valid
\* attestation.
lib_verify_registration_response(rc, ok, expected_challenge) ==
    rc = expected_challenge /\ ok

\* webauthn.verify_authentication_response(credential, expected_challenge,
\* ..., credential_current_sign_count): challenge, signature, and the counter
\* of the response must exceed the current one unless both are zero.
lib_verify_authentication_response(rc, ok, new_count, expected, current_count) ==
    /\ rc = expected
    /\ ok
    /\ ~ (/\ (new_count > 0 \/ current_count > 0)
          /\ new_count <= current_count)

\* generate_registration_options_for_user(username): user_id = uuid4(), a
\* challenge from the library, then _store_challenge(user_id, challenge).
WebAuthnManager_generate_registration_options_for_user(t, u) ==
    /\ At(t, "idle")
    /\ u \notin hist.user_ids
    /\ issued < MaxChal
    /\ issued' = issued + 1
    /\ hist' = [hist EXCEPT !.user_ids = @ \cup {u}]
    /\ Goto(t, [Call(t, "generate_registration_options_for_user", NoCred, u)
                   EXCEPT !.pc = "_store_challenge_read", !.m = issued + 1])
    /\ UNCHANGED <<dbvars, session, credentials, now, secretvars, appvars, cryptovars, txvars, procvars>>

\* generate_authentication_options(user_id): get_user_credential (none ->
\* ValueError, nothing changes), a challenge from the library, then
\* _store_challenge(user_id, challenge).
WebAuthnManager_generate_authentication_options(t, u) ==
    /\ At(t, "idle")
    /\ credentials.users[u].registered
    /\ issued < MaxChal
    /\ issued' = issued + 1
    /\ Goto(t, [Call(t, "generate_authentication_options", NoCred, u)
                   EXCEPT !.pc = "_store_challenge_read", !.m = issued + 1])
    /\ UNCHANGED <<dbvars, session, filevars, secretvars, appvars, cryptovars, txvars, procvars>>

\* _store_challenge: credentials = json.load(f)
_store_challenge_read(t) ==
    /\ At(t, "_store_challenge_read")
    /\ Goto(t, [th[t] EXCEPT !.pc = "_store_challenge_write", !.f = credentials])
    /\ UNCHANGED <<dbvars, session, issued, filevars, secretvars, appvars, cryptovars, txvars, procvars>>

\* _store_challenge: credentials["challenges"][user_id] = challenge;
\* json.dump(credentials, f)
_store_challenge_write(t) ==
    /\ At(t, "_store_challenge_write")
    /\ credentials' = [th[t].f EXCEPT !.challenges[th[t].uid] = th[t].m]
    /\ hist' = [hist EXCEPT !.issued_at[th[t].m] = now]
    /\ Done(t, TRUE)
    /\ UNCHANGED <<dbvars, session, issued, now, secretvars, appvars, cryptovars, txvars, procvars>>

\* verify_registration_response(user_id, response): the response was made
\* over challenge rc, reports counter sign_count and is well-formed or not.
WebAuthnManager_verify_registration_response(t, u, rc, sign_count, ok) ==
    /\ At(t, "idle")
    /\ u \in hist.user_ids
    /\ Goto(t, [Call(t, "verify_registration_response", NoCred, u) EXCEPT
                   !.pc = "verify_registration_challenge", !.rc = rc,
                   !.n = sign_count, !.p = ok, !.at = now,
                   !.again = rc \in hist.failed])
    /\ UNCHANGED <<dbvars, session, issued, filevars, secretvars, appvars, cryptovars, txvars, procvars>>

\* challenge = self._get_challenge(user_id); none -> ValueError; then the
\* library verifies the response; an exception is re-raised as ValueError.
verify_registration_challenge(t) ==
    /\ At(t, "verify_registration_challenge")
    /\ LET challenge == credentials.challenges[th[t].uid] IN
       IF challenge = 0
       THEN Fail(t, "ChallengeExpired") /\ UNCHANGED hist
       ELSE IF lib_verify_registration_response(th[t].rc, th[t].p, challenge)
       THEN /\ Goto(t, [th[t] EXCEPT !.pc = "_store_credential_read",
                                     !.m = challenge])
            /\ UNCHANGED hist
       ELSE /\ Done(t, FALSE)
            /\ hist' = [hist EXCEPT !.failed = @ \cup {challenge}]
    /\ UNCHANGED <<dbvars, session, issued, credentials, now, secretvars, appvars, cryptovars, txvars, procvars>>

\* _store_credential: credentials = json.load(f)
_store_credential_read(t) ==
    /\ At(t, "_store_credential_read")
    /\ Goto(t, [th[t] EXCEPT !.pc = "_store_credential_write", !.f = credentials])
    /\ UNCHANGED <<dbvars, session, issued, filevars, secretvars, appvars, cryptovars, txvars, procvars>>

\* _store_credential: credentials["users"][user_id] = {...}; json.dump
_store_credential_write(t) ==
    /\ At(t, "_store_credential_write")
    /\ credentials' = [th[t].f EXCEPT !.users[th[t].uid] =
                          [registered |-> TRUE, sign_count |-> th[t].n]]
    /\ Goto(t, [th[t] EXCEPT !.pc = "_remove_challenge_read"])
    /\ UNCHANGED <<dbvars, session, issued, now, hist, secretvars, appvars, cryptovars, txvars, procvars>>

\* verify_authentication_response(user_id, response): the response was made
\* over challenge rc, reports counter new_sign_count and is signed well or not.
WebAuthnManager_verify_authentication_response(t, u, rc, new_sign_count, ok) ==
    /\ At(t, "idle")
    /\ u \in hist.user_ids
    /\ Goto(t, [Call(t, "verify_authentication_response", NoCred, u) EXCEPT
                   !.pc = "verify_authentication_credential", !.rc = rc,
                   !.n = new_sign_count, !.p = ok, !.at = now,
                   !.again = rc \in hist.failed])
    /\ UNCHANGED <<dbvars, session, issued, filevars, secretvars, appvars, cryptovars, txvars, procvars>>

\* credential = self.get_user_credential(user_id); none -> ValueError
verify_authentication_credential(t) ==
    /\ At(t, "verify_authentication_credential")
    /\ LET credential == credentials.users[th[t].uid] IN
       IF ~ credential.registered
       THEN Done(t, FALSE)
       ELSE Goto(t, [th[t] EXCEPT !.pc = "verify_authentication_challenge",
                                  !.y.sign_count = credential.sign_count])
    /\ UNCHANGED <<dbvars, session, issued, filevars, secretvars, appvars, cryptovars, txvars, procvars>>

\* challenge = self._get_challenge(user_id); none -> ValueError; then the
\* library verifies the response against the challenge and the counter read
\* with the credential; an exception is re-raised as ValueError.
verify_authentication_challenge(t) ==
    /\ At(t, "verify_authentication_challenge")
    /\ LET challenge == credentials.challenges[th[t].uid] IN
       IF challenge = 0
       THEN Fail(t, "ChallengeExpired") /\ UNCHANGED hist
       ELSE IF lib_verify_authentication_response(th[t].rc, th[t].p, th[t].n,
                                                  challenge, th[t].y.sign_count)
       THEN /\ Goto(t, [th[t] EXCEPT !.pc = "_update_sign_count_read",
                                     !.m = challenge])
            /\ UNCHANGED hist
       ELSE /\ Done(t, FALSE)
            /\ hist' = [hist EXCEPT !.failed = @ \cup {challenge}]
    /\ UNCHANGED <<dbvars, session, issued, credentials, now, secretvars, appvars, cryptovars, txvars, procvars>>

\* _update_sign_count: credentials = json.load(f)
_update_sign_count_read(t) ==
    /\ At(t, "_update_sign_count_read")
    /\ Goto(t, [th[t] EXCEPT !.pc = "_update_sign_count_write", !.f = credentials])
    /\ UNCHANGED <<dbvars, session, issued, filevars, secretvars, appvars, cryptovars, txvars, procvars>>

\* _update_sign_count: if user_id in credentials["users"]:
\*     credentials["users"][user_id]["sign_count"] = new_sign_count; json.dump
_update_sign_count_write(t) ==
    /\ At(t, "_update_sign_count_write")
    /\ credentials' = IF th[t].f.users[th[t].uid].registered
                      THEN [th[t].f EXCEPT !.users[th[t].uid].sign_count = th[t].n]
                      ELSE th[t].f
    /\ Goto(t, [th[t] EXCEPT !.pc = "_remove_challenge_read"])
    /\ UNCHANGED <<dbvars, session, issued, now, hist, secretvars, appvars, cryptovars, txvars, procvars>>

\* _remove_challenge: credentials = json.load(f)
_remove_challenge_read(t) ==
    /\ At(t, "_remove_challenge_read")
    /\ Goto(t, [th[t] EXCEPT !.pc = "_remove_challenge_write", !.f = credentials])
    /\ UNCHANGED <<dbvars, session, issued, filevars, secretvars, appvars, cryptovars, txvars, procvars>>

\* _remove_challenge: del credentials["challenges"][user_id]; json.dump; the
\* ceremony returns {"verified": True}.  succeeded records the browser and
\* the user of an authentication that returns so.
_remove_challenge_write(t) ==
    /\ At(t, "_remove_challenge_write")
    /\ credentials' = [th[t].f EXCEPT !.challenges[th[t].uid] = 0]
    /\ hist' = [hist EXCEPT !.uses[th[t].m] = Min(@ + 1, MaxUses)]
    /\ succeeded' = IF th[t].op = "verify_authentication_response"
                       /\ th[t].sid # NoBrowser
                    THEN succeeded \cup {<<th[t].sid, th[t].uid>>}
                    ELSE succeeded
    /\ Done(t, TRUE)
    /\ UNCHANGED <<dbvars, session, issued, now, secretvars, app_session,
                   encrypted_seeds, cryptovars, txvars, procvars>>

\* The caller drops the request's objects.
Return(t) ==
    /\ At(t, "done")
    /\ Goto(t, Idle)
    /\ UNCHANGED <<dbvars, session, issued, filevars, secretvars, appvars, cryptovars, txvars, procvars>>

-----------------------------------------------------------------------------
(* services/crypto_service.py and services/encryption_service.py.  Byte     *)
(* strings are told apart by where they come from: src "urandom" with the   *)
(* number n of the draw, src "constant" for a literal of the code; enc is  *)
(* the encoding they are in.  A key is what it was derived from, and a      *)
(* ciphertext opens under the key and nonce it was made with.               *)

\* The draws of os.urandom are counted up to MaxDraws.
MaxDraws == 4
KeyDerivations == {"HKDF-SHA256", "PBKDF2"}
Secrets == {"k1", "k2"}
Plaintexts == {"", "abandon", "zoo"}

Bytes(src, n) == [src |-> src, n |-> n, enc |-> "raw"]
NoBytes == Bytes("absent", 0)
urandom(n) == Bytes("urandom", n)
\* salt = b"yubikey_bitcoin_seed_storage_salt"
FixedSalt == Bytes("constant", 0)

\* base64.b64encode / b64decode and bytes.hex / bytes.fromhex
b64encode(v) == [v EXCEPT !.enc = "b64"]
b64decode(v) == [v EXCEPT !.enc = "raw"]
hex(v) == [v EXCEPT !.enc = "hex"]
fromhex(v) == [v EXCEPT !.enc = "raw"]
\* str.encode("utf-8") / bytes.decode("utf-8")
encode(text) == <<text>>
decode(data) == data[1]

NoDerivedKey == [kdf |-> "none", secret |-> "none", salt |-> NoBytes]
NoCiphertext == [key |-> NoDerivedKey, nonce |-> NoBytes, data |-> encode(""),
                 intact |-> FALSE, enc |-> "raw"]
\* AESGCM(key).encrypt(nonce, data, None): ciphertext and tag.
AESGCM_encrypt(key, nonce, data) ==
    [key |-> key, nonce |-> nonce, data |-> data, intact |-> TRUE, enc |-> "raw"]
\* AESGCM(key).decrypt(nonce, ciphertext, None) returns the data, or raises
\* InvalidTag.
AESGCM_opens(key, nonce, ciphertext) ==
    /\ ciphertext.enc = "raw"
    /\ ciphertext.intact
    /\ ciphertext.key = key
    /\ ciphertext.nonce = nonce

\* get_encryption_key(encryption_context): has_salt and salt tell the context,
\* fresh is the value os.urandom(16) gives.  Returns the key, the salt it used
\* and whether a context is returned with it.
get_encryption_key(cfg, has_salt, salt, fresh) ==
    LET used == IF has_salt THEN salt
                ELSE IF cfg.key_derivation = "HKDF-SHA256" THEN fresh
                ELSE FixedSalt
    IN [key |-> [kdf |-> cfg.key_derivation, secret |-> cfg.master_key,
                 salt |-> used],
        salt |-> used,
        context |-> ~ has_salt]

\* EncryptionService._derive_key(encryption_key, salt): PBKDF2HMAC
_derive_key(encryption_key, salt) ==
    [kdf |-> "PBKDF2HMAC", secret |-> encryption_key, salt |-> salt]

\* An envelope: json tells whether it parses, has_salt and has_nonce whether
\* the fields are there.
NoEnvelope == [service |-> "none", json |-> FALSE, has_salt |-> FALSE,
               has_nonce |-> FALSE, salt |-> NoBytes, nonce |-> NoBytes,
               ciphertext |-> NoCiphertext]
\* config.get("key_derivation", "HKDF-SHA256"), config.get("master_key", ...)
DefaultConfig == [key_derivation |-> "HKDF-SHA256", master_key |-> "k1"]
NoConfig == [key_derivation |-> "none", master_key |-> "none"]
NoMade == [plaintext |-> "", cfg |-> NoConfig, envelope |-> NoEnvelope]
\* An answer of a decryption: seq tells one call from the next, cfg is the
\* secret material the call was made with.
NoResult == [call |-> "none", ok |-> FALSE, plaintext |-> "", error |-> "none",
             seq |-> 0, cfg |-> NoConfig]
Returns(call, text) == [NoResult EXCEPT !.call = call, !.ok = TRUE, !.plaintext = text]
Raises(call, e) == [NoResult EXCEPT !.call = call, !.error = e]
Answer(outcome, cfg) == [outcome EXCEPT !.seq = 1 - result.seq, !.cfg = cfg]

\* The operator of the server edits config.yaml.
SetConfig(cfg) ==
    /\ config # cfg
    /\ config' = cfg
    /\ UNCHANGED <<dbvars, session, issued, th, filevars, secretvars, appvars, txvars, procvars,
                   drawn, envelope, made, result, produced>>

\* encrypt_seed(seed_phrase): key and context from get_encryption_key(), a
\* nonce from os.urandom(12), the envelope as JSON with nonce, ciphertext and
\* the context's salt in base64.  HKDF-SHA256 draws the salt before the nonce.
encrypt_seed(seed_phrase) ==
    LET salts == IF config.key_derivation = "HKDF-SHA256" THEN 1 ELSE 0
        k == get_encryption_key(config, FALSE, NoBytes, urandom(drawn + 1))
        nonce == urandom(drawn + salts + 1)
        ciphertext == AESGCM_encrypt(k.key, nonce, encode(seed_phrase))
        e == [service |-> "crypto_service", json |-> TRUE,
              has_salt |-> k.context, has_nonce |-> TRUE,
              salt |-> b64encode(k.salt), nonce |-> b64encode(nonce),
              ciphertext |-> b64encode(ciphertext)]
    IN /\ drawn + salts + 1 <= MaxDraws
       /\ drawn' = drawn + salts + 1
       /\ envelope' = e
       /\ made' = [plaintext |-> seed_phrase, cfg |-> config, envelope |-> e]
       /\ produced' = Append(produced, [salt |-> k.salt, nonce |-> nonce])
       /\ UNCHANGED <<dbvars, session, issued, th, filevars, secretvars, appvars, txvars, procvars,
                      config, result>>

\* What decrypt_seed(encrypted_data) returns or raises: json.loads, b64decode
\* of nonce and ciphertext (of None a TypeError), the salt of the envelope as
\* the context of get_encryption_key, AESGCM decrypt.  fresh is the salt that
\* os.urandom(16) gives when the envelope has none.
decrypt_seed_outcome(e, cfg, fresh) ==
    IF ~ e.json THEN Raises("decrypt_seed", "JSONDecodeError")
    ELSE IF ~ e.has_nonce THEN Raises("decrypt_seed", "TypeError")
    ELSE IF e.nonce.enc # "b64" \/ e.ciphertext.enc # "b64"
               \/ (e.has_salt /\ e.salt.enc # "b64")
    THEN Raises("decrypt_seed", "binascii.Error")
    ELSE LET k == get_encryption_key(cfg, e.has_salt, b64decode(e.salt), fresh)
             ciphertext == b64decode(e.ciphertext)
         IN IF AESGCM_opens(k.key, b64decode(e.nonce), ciphertext)
            THEN Returns("decrypt_seed", decode(ciphertext.data))
            ELSE Raises("decrypt_seed", "InvalidTag")

\* A decryption that derives the key without the envelope's salt.
decrypt_seed_own_salt ==
    /\ envelope.service = "crypto_service"
    /\ result' = Answer(decrypt_seed_outcome([envelope EXCEPT !.has_salt = FALSE],
                                             config, urandom(drawn + 1)), config)
    /\ UNCHANGED <<dbvars, session, issued, th, filevars, secretvars, appvars, txvars, procvars,
                   config, drawn, envelope, made, produced>>

\* decrypt_seed(seed.encrypted_seed) as decrypt_seed_data calls it: the seed
\* phrase with 200, or 500 with "Internal server error: " and str(e).
decrypt_seed ==
    /\ envelope.service = "crypto_service"
    /\ result' = Answer(decrypt_seed_outcome(envelope, config, urandom(drawn + 1)),
                        config)
    /\ UNCHANGED <<dbvars, session, issued, th, filevars, secretvars, appvars, txvars, procvars,
                   config, drawn, envelope, made, produced>>

\* store_encrypted_seed(username, mnemonic, encryption_key): salt from
\* os.urandom(16), key from _derive_key, nonce from os.urandom(12); salt,
\* nonce and ciphertext are stored in hex.
store_encrypted_seed(mnemonic, encryption_key) ==
    LET salt == urandom(drawn + 1)
        nonce == urandom(drawn + 2)
        key == _derive_key(encryption_key, salt)
        ciphertext == AESGCM_encrypt(key, nonce, encode(mnemonic))
        e == [service |-> "encryption_service", json |-> TRUE,
              has_salt |-> TRUE, has_nonce |-> TRUE, salt |-> hex(salt),
              nonce |-> hex(nonce), ciphertext |-> hex(ciphertext)]
    IN /\ drawn + 2 <= MaxDraws
       /\ drawn' = drawn + 2
       /\ envelope' = e
       /\ made' = [plaintext |-> mnemonic,
                   cfg |-> [key_derivation |-> "PBKDF2HMAC",
                            master_key |-> encryption_key],
                   envelope |-> e]
       /\ produced' = Append(produced, [salt |-> salt, nonce |-> nonce])
       /\ UNCHANGED <<dbvars, session, issued, th, filevars, secretvars, appvars, txvars, procvars,
                      config, result>>

\* retrieve_encrypted_seed(username, encryption_key): fromhex of salt, nonce
\* and ciphertext, _derive_key, AESGCM decrypt; every exception is answered
\* with 'Invalid encryption key or corrupted data'.
retrieve_encrypted_seed(encryption_key) ==
    /\ envelope.service = "encryption_service"
    /\ LET e == envelope
           wrong == Raises("retrieve_encrypted_seed",
                           "Invalid encryption key or corrupted data")
           outcome ==
             IF ~ e.json \/ ~ e.has_salt \/ ~ e.has_nonce THEN wrong
             ELSE IF e.salt.enc # "hex" \/ e.nonce.enc # "hex"
                        \/ e.ciphertext.enc # "hex" THEN wrong
             ELSE LET ciphertext == fromhex(e.ciphertext) IN
                  IF AESGCM_opens(_derive_key(encryption_key, fromhex(e.salt)),
                                  fromhex(e.nonce), ciphertext)
                  THEN Returns("retrieve_encrypted_seed", decode(ciphertext.data))
                  ELSE wrong
       IN result' = Answer(outcome, [key_derivation |-> "PBKDF2HMAC",
                                     master_key |-> encryption_key])
    /\ UNCHANGED <<dbvars, session, issued, th, filevars, secretvars, appvars, txvars, procvars,
                   config, drawn, envelope, made, produced>>

\* The stored envelope is changed outside the services: a byte of the
\* ciphertext or of the nonce is altered, the envelope no longer parses, or
\* a field of it is gone.
Corrupt(how) ==
    /\ envelope = made.envelope
    /\ envelope.service # "none"
    /\ envelope' =
          IF how = "ciphertext" THEN [envelope EXCEPT !.ciphertext.intact = FALSE]
          ELSE IF how = "nonce" THEN [envelope EXCEPT !.nonce.src = "altered"]
          ELSE IF how = "not_json" THEN [envelope EXCEPT !.json = FALSE]
          ELSE IF how = "no_nonce" THEN [envelope EXCEPT !.has_nonce = FALSE]
          ELSE [envelope EXCEPT !.has_salt = FALSE]
    /\ UNCHANGED <<dbvars, session, issued, th, filevars, secretvars, appvars, txvars, procvars,
                   config, drawn, made, result, produced>>

-----------------------------------------------------------------------------
(* models/database.py: the connection of one thread.  sqlite3 opens a       *)
(* transaction before a statement that changes rows (INSERT, UPDATE,        *)
(* DELETE) when none is open; any other statement runs in the transaction   *)
(* that is open, or on its own and takes effect at once when none is.       *)

\* The calls of the DatabaseManager are counted up to MaxCalls; a list has up
\* to MaxQueries queries.
MaxCalls == 2
MaxQueries == 3
\* A query is told by its kind: an INSERT or a CREATE TABLE that succeed, or
\* a statement that raises (an INSERT that violates PRIMARY KEY).
Succeeding == {"INSERT", "CREATE TABLE"}
Kinds == Succeeding \cup {"raises"}
\* The statement at place i of call k.
Statement(k, i) == <<k, i>>
NoTransaction == [call |-> 0, queries |-> <<>>, returned |-> FALSE]

\* execute_query(query, params, commit): cursor.execute(query, params), then
\* conn.commit() if commit.
execute_query(query, commit) ==
    /\ calls < MaxCalls
    /\ calls' = calls + 1
    /\ LET st == Statement(calls + 1, 1)
           open == query = "INSERT" \/ pending # {}
           com == IF open THEN committed ELSE committed \cup {st}
           pen == IF open THEN pending \cup {st} ELSE pending
       IN /\ committed' = IF commit THEN com \cup pen ELSE com
          /\ pending' = IF commit THEN {} ELSE pen
    /\ UNCHANGED <<dbvars, session, issued, th, filevars, secretvars, appvars,
                   cryptovars, last, procvars>>

\* The body of "with conn:" from query i of the list on: conn.execute for
\* each query; an exception leaves the block, which rolls back, a normal end
\* commits.  Returns what execute_transaction returns and the statements
\* that are committed afterwards.
RECURSIVE with_conn(_, _, _, _, _)
with_conn(queries, i, k, com, pen) ==
    IF i > Len(queries) THEN [returned |-> TRUE, committed |-> com \cup pen]
    ELSE IF queries[i] = "raises" THEN [returned |-> FALSE, committed |-> com]
    ELSE IF queries[i] = "INSERT" \/ pen # {}
    THEN with_conn(queries, i + 1, k, com, pen \cup {Statement(k, i)})
    ELSE with_conn(queries, i + 1, k, com \cup {Statement(k, i)}, pen)

\* execute_transaction(queries)
execute_transaction(queries) ==
    /\ calls < MaxCalls
    /\ calls' = calls + 1
    /\ LET out == with_conn(queries, 1, calls + 1, committed, pending) IN
       /\ committed' = out.committed
       /\ pending' = {}
       /\ last' = [call |-> calls + 1, queries |-> queries,
                   returned |-> out.returned]
    /\ UNCHANGED <<dbvars, session, issued, th, filevars, secretvars, appvars,
                   cryptovars, procvars>>

-----------------------------------------------------------------------------
(* The credential store under concurrent requests of one user. *)

StoreUsers == {"u1"}
StoreCreds == {"c1", "c2"}

Init ==
    /\ users = [u \in Users |-> NoUserRow]
    /\ yubikeys = [c \in CredIds |-> NoRow]
    /\ session = NoState
    /\ issued = 0
    /\ th = [t \in Threads |-> Idle]
    /\ credentials = EmptyFile
    /\ now = 0
    /\ hist = [user_ids |-> {}, issued_at |-> [c \in 1..MaxChal |-> 0],
               failed |-> {}, uses |-> [c \in 1..MaxChal |-> 0]]
    /\ seeds = [s \in SeedIds |-> NoSeed]
    /\ yubikey_salts = {}
    /\ webauthn_challenges = {}
    /\ app_session = [b \in Browsers |-> NoSession]
    /\ encrypted_seeds = {}
    /\ succeeded = {}
    /\ config = DefaultConfig
    /\ drawn = 0
    /\ envelope = NoEnvelope
    /\ made = NoMade
    /\ result = NoResult
    /\ produced = <<>>
    /\ committed = {}
    /\ pending = {}
    /\ calls = 0
    /\ last = NoTransaction
    /\ NoProcess

Step(t) ==
    \/ create_get_user(t)
    \/ create_can_register(t)
    \/ create_unset_primary(t)
    \/ create_insert(t)
    \/ register_list(t)
    \/ set_primary_get(t)
    \/ set_as_primary_unset(t)
    \/ set_as_primary_set(t)
    \/ api_set_primary_get(t)
    \/ api_set_primary_update(t)
    \/ api_delete_get(t)
    \/ revoke_get(t)
    \/ revoke_list(t)
    \/ delete_list(t)
    \/ delete_delete(t)
    \/ Return(t)

Next ==
    \/ \E u \in StoreUsers, m \in 1..MaxKeys : User_create(u, m)
    \/ \E u \in StoreUsers, m \in 1..MaxKeys : User_update(u, m)
    \/ \E u \in StoreUsers : User_delete(u)
    \/ \E t \in Threads, c \in StoreCreds, u \in StoreUsers, p \in BOOLEAN :
          YubiKey_create(t, c, u, p)
    \/ \E t \in Threads, c \in StoreCreds, u \in StoreUsers :
          \/ verify_registration_response(t, c, u)
          \/ set_primary_yubikey(t, c, u)
          \/ api_set_primary_yubikey(t, c, u)
          \/ api_delete_yubikey(t, c, u)
          \/ revoke_yubikey(t, c, u)
    \/ \E t \in Threads : Step(t)

Spec == Init /\ [][Next]_vars
-----------------------------------------------------------------------------
(* Claims about the credential store *)

Primaries(u) == {c \in UserKeys(yubikeys, u) : yubikeys[c].is_primary}

\* C1: for every user, in every state of the store, at most one of the
\* user's credentials has is_primary = true.
C1_AtMostOnePrimary ==
    \A u \in Users : Cardinality(Primaries(u)) <= 1

\* C2: in every committed state of the store in which a user owns at least
\* one credential, exactly one of the user's credentials is primary.
C2_ExactlyOnePrimary ==
    \A u \in Users : UserKeys(yubikeys, u) # {} => Cardinality(Primaries(u)) = 1

\* C5: once a user owns a credential, no step other than the deletion of the
\* user leaves the user without credentials.
C5_KeepsLastCredential ==
    [][\A u \in Users :
          (UserKeys(yubikeys, u) # {} /\ users'[u].present)
              => UserKeys(yubikeys', u) # {}]_vars

\* C6: in every state the number of credentials stored for a user is at most
\* the user's max_yubikeys.
C6_CountWithinMax ==
    \A u \in Users : users[u].present => count_yubikeys(u) <= users[u].max_yubikeys
\* The credentials of u whose is_primary is set in table db.
PrimariesIn(db, u) == {c \in UserKeys(db, u) : db[c].is_primary}

\* Thread t ends request op in this step with result r.
Ends(t, op, r) ==
    /\ th[t].op = op
    /\ th[t].pc # "done"
    /\ th'[t].pc = "done"
    /\ th'[t].res = r

\* C13: when set_primary(B) succeeds for credential B of user u, the store
\* shows B as primary and no other credential of u as primary.
C13_PromotionMovesPrimary ==
    [][\A t \in Threads :
          (Ends(t, "set_primary_yubikey", TRUE)
              /\ th[t].cid \in UserKeys(yubikeys', th[t].uid))
          => PrimariesIn(yubikeys', th[t].uid) = {th[t].cid}]_vars

\* Credential th[t].cid is the only credential of its user.
OnlyCredential(t) == UserKeys(yubikeys, th[t].y.user_id) = {th[t].cid}

\* C15: a delete / revoke of the user's only remaining credential fails and
\* the credential stays in the store: the request is refused where it lists
\* the credentials, and its DELETE never removes a last credential.
C15_OnlyCredentialNotDeleted ==
    [][\A t \in Threads :
          /\ (th[t].pc \in {"delete_list", "revoke_list"} /\ th'[t] # th[t]
                /\ OnlyCredential(t))
                => (yubikeys' = yubikeys /\ th'[t].pc = "done" /\ ~ th'[t].res)
          /\ (At(t, "delete_delete") /\ th'[t] # th[t] /\ OnlyCredential(t))
                => (yubikeys' = yubikeys /\ ~ th'[t].res)]_vars

\* Another credential of the user of th[t].cid is primary in the store.
OtherPrimary(t) ==
    \E c \in UserKeys(yubikeys, th[t].y.user_id) : c # th[t].cid /\ yubikeys[c].is_primary

\* The stored row of th[t].cid is primary and no other credential of its user is.
SolePrimary(t) ==
    /\ Present(yubikeys[th[t].cid])
    /\ yubikeys[th[t].cid].is_primary
    /\ ~ OtherPrimary(t)

\* C16: YubiKey.delete on a credential whose primary flag is set fails and
\* changes nothing unless another credential of the user is already primary;
\* once another credential is primary the delete is not refused.
C16_PrimaryNotDeleted ==
    [][\A t \in Threads :
          /\ (At(t, "delete_list") /\ th'[t] # th[t] /\ SolePrimary(t))
                => (yubikeys' = yubikeys /\ th'[t].pc = "done" /\ ~ th'[t].res)
          /\ (At(t, "delete_delete") /\ th'[t] # th[t] /\ SolePrimary(t))
                => (yubikeys' = yubikeys /\ ~ th'[t].res)
          /\ (At(t, "delete_list") /\ th'[t] # th[t] /\ OtherPrimary(t)
                /\ Present(yubikeys[th[t].cid]))
                => th'[t].pc = "delete_delete"]_vars

\* The stored row of th[t].cid is not primary and its user owns another credential.
SpareCredential(t) ==
    /\ Present(yubikeys[th[t].cid])
    /\ ~ yubikeys[th[t].cid].is_primary
    /\ Cardinality(UserKeys(yubikeys, yubikeys[th[t].cid].user_id)) >= 2

\* C17: the delete of a non-primary credential of a user who owns at least
\* two credentials succeeds: it is not refused, and its DELETE removes that
\* row and leaves every other credential and every primary flag as it was.
C17_SpareCredentialDeleted ==
    [][\A t \in Threads :
          /\ (At(t, "delete_list") /\ th'[t] # th[t] /\ SpareCredential(t))
                => th'[t].pc = "delete_delete"
          /\ (At(t, "delete_delete") /\ th'[t] # th[t] /\ SpareCredential(t))
                => /\ th'[t].res
                   /\ ~ Present(yubikeys'[th[t].cid])
                   /\ \A c \in CredIds \ {th[t].cid} :
                         /\ Present(yubikeys'[c]) = Present(yubikeys[c])
                         /\ KeyOf(yubikeys'[c]) = KeyOf(yubikeys[c])]_vars

\* Thread t ends, in this step, a revoke_yubikey that found its credential
\* primary among at least two and chose another one to promote, and that
\* other credential is still in the store.
RevokeOfPrimaryEnds(t) ==
    /\ th[t].op = "revoke_yubikey"
    /\ th[t].o # NoCred
    /\ th[t].pc # "done"
    /\ th'[t].pc = "done"
    /\ th[t].o \in UserKeys(yubikeys, th[t].uid)

-----------------------------------------------------------------------------
(* Concurrent registrations of one user. *)

RegisterUsers == {"u1"}
RegisterCreds == {"c1", "c2"}

RegisterStep(t) ==
    \/ begin_get_user(t)
    \/ begin_can_register(t)
    \/ register_list(t)
    \/ create_get_user(t)
    \/ create_can_register(t)
    \/ create_unset_primary(t)
    \/ create_insert(t)
    \/ Return(t)

NextRegister ==
    \/ \E u \in RegisterUsers, m \in 1..MaxKeys : User_create(u, m)
    \/ \E u \in RegisterUsers, m \in 1..MaxKeys : User_update(u, m)
    \/ \E t \in Threads, u \in RegisterUsers : generate_registration_options(t, u)
    \/ \E t \in Threads, c \in RegisterCreds, u \in RegisterUsers :
          verify_registration_response(t, c, u)
    \/ \E t \in Threads : RegisterStep(t)

SpecRegister == Init /\ [][NextRegister]_vars

\* Thread t completes a registration in this step: the INSERT of
\* verify_registration_response's YubiKey.create commits and the call succeeds.
RegistrationSucceeds(t) ==
    /\ th[t].op = "register"
    /\ At(t, "create_insert")
    /\ th'[t].pc = "done"
    /\ th'[t].res

AtCap(u) == users[u].present /\ count_yubikeys(u) >= users[u].max_yubikeys

-----------------------------------------------------------------------------
(* Authentication and the signature counter of one credential. *)

CounterUsers == {"u1"}
CounterCreds == {"c1"}

CounterStep(t) ==
    \/ register_list(t)
    \/ create_get_user(t)
    \/ create_can_register(t)
    \/ create_unset_primary(t)
    \/ create_insert(t)
    \/ authenticate_get(t)
    \/ authenticate_sign_count(t)
    \/ authenticate_user(t)
    \/ authenticate_last_login(t)
    \/ authenticate_success(t)
    \/ _update_sign_count_list(t)
    \/ _update_sign_count_update(t)
    \/ _update_sign_count_return(t)
    \/ api_update_get(t)
    \/ api_update_update(t)
    \/ Return(t)

NextCounter ==
    \/ \E u \in CounterUsers : User_create(u, MaxKeys)
    \/ \E u \in CounterUsers : generate_authentication_options(u)
    \/ \E t \in Threads, c \in CounterCreds, u \in CounterUsers :
          \/ verify_registration_response(t, c, u)
          \/ api_update_yubikey(t, c, u)
    \/ \E t \in Threads, c \in CounterCreds, rc \in 1..issued, a \in BOOLEAN :
          verify_authentication_response(t, c, rc, a)
    \/ \E t \in Threads, u \in CounterUsers, n \in 0..MaxCount :
          WebAuthnManager_update_sign_count(t, u, n)
    \/ \E t \in Threads : CounterStep(t)

SpecCounter == Init /\ [][NextCounter]_vars

\* C3: the sign_count stored for a credential never decreases.
C3_SignCountMonotonic ==
    [][\A c \in CredIds :
          (Present(yubikeys[c]) /\ Present(yubikeys'[c]))
              => yubikeys'[c].sign_count >= yubikeys[c].sign_count]_vars

\* C4: an authentication succeeds (and the token is issued) only if the new
\* signature counter went through update_sign_count and was accepted.
C4_SuccessOnlyWithAcceptedCounter ==
    \A t \in Threads :
        (At(t, "done") /\ th[t].op = "authenticate" /\ th[t].res) => th[t].acc

CallsUpdateSignCount(t, m) ==
    /\ th'[t] # th[t]
    /\ \/ At(t, "authenticate_sign_count") /\ m = th[t].y.sign_count + 1
       \/ At(t, "_update_sign_count_update") /\ m = th[t].n

\* C11: update_sign_count(m) with m <= n, n the counter stored by an earlier
\* successful update_sign_count(n), returns failure and leaves the row as it is.
C11_RejectedCountMutatesNothing ==
    [][\A t \in Threads, m \in 0..MaxCount :
          (CallsUpdateSignCount(t, m) /\ Present(yubikeys[th[t].cid])
              /\ m <= yubikeys[th[t].cid].sign_count)
          => (~ th'[t].acc /\ yubikeys' = yubikeys)]_vars

-----------------------------------------------------------------------------
(* Promotion of a credential when a statement of set_as_primary can fail. *)

FaultStep(t) ==
    \/ register_list(t)
    \/ create_get_user(t)
    \/ create_can_register(t)
    \/ create_unset_primary(t)
    \/ create_insert(t)
    \/ set_primary_get(t)
    \/ set_as_primary_unset(t)
    \/ set_as_primary_set(t)
    \/ set_as_primary_raises(t)
    \/ Return(t)

NextFault ==
    \/ \E u \in StoreUsers : User_create(u, MaxKeys)
    \/ \E t \in Threads, c \in StoreCreds, u \in StoreUsers :
          \/ verify_registration_response(t, c, u)
          \/ set_primary_yubikey(t, c, u)
    \/ \E t \in Threads : FaultStep(t)

SpecFault == Init /\ [][NextFault]_vars

\* C12: a set_primary / set_as_primary that fails (returns False) has changed
\* no stored is_primary flag: the clearing of the old primary is never left
\* behind without the new primary being set.
C12_FailedPromotionChangesNothing ==
    [][\A t \in Threads :
          (th[t].op = "set_primary_yubikey" /\ th'[t] # th[t]
              /\ th'[t].pc = "done" /\ ~ th'[t].res)
          => ~ th[t].wrote]_vars

-----------------------------------------------------------------------------
(* Promotion requests of two users, for their own and for foreign credentials. *)

OwnerUsers == {"u1", "u2"}
OwnerCreds == {"c1", "c2"}

OwnerStep(t) ==
    \/ register_list(t)
    \/ create_get_user(t)
    \/ create_can_register(t)
    \/ create_unset_primary(t)
    \/ create_insert(t)
    \/ set_primary_get(t)
    \/ set_as_primary_unset(t)
    \/ set_as_primary_set(t)
    \/ Return(t)

NextOwner ==
    \/ \E u \in OwnerUsers : User_create(u, MaxKeys)
    \/ \E t \in Threads, c \in OwnerCreds, u \in OwnerUsers :
          \/ verify_registration_response(t, c, u)
          \/ set_primary_yubikey(t, c, u)
    \/ \E t \in Threads : OwnerStep(t)

SpecOwner == Init /\ [][NextOwner]_vars

\* C14: set_primary(user_id, credential_id) on a credential that does not
\* exist or belongs to another user fails, and no step of the request changes
\* a row of the store.
C14_ForeignPromotionRefused ==
    [][\A t \in Threads :
          /\ (At(t, "idle") /\ th'[t].op = "set_primary_yubikey" /\ th'[t].pc # "idle")
                => yubikeys' = yubikeys
          /\ (At(t, "set_primary_get") /\ th'[t] # th[t]
                /\ th[t].cid \notin UserKeys(yubikeys, th[t].uid))
                => (yubikeys' = yubikeys /\ th'[t].pc = "done" /\ ~ th'[t].res)]_vars

\* A promotion of another user's primary credential has been refused while
\* the caller owns a credential of their own.
C14_Witness ==
    \E t \in Threads :
        /\ At(t, "done") /\ th[t].op = "set_primary_yubikey" /\ ~ th[t].res
        /\ Present(yubikeys[th[t].cid])
        /\ yubikeys[th[t].cid].user_id # th[t].uid
        /\ yubikeys[th[t].cid].is_primary
        /\ UserKeys(yubikeys, th[t].uid) # {}

-----------------------------------------------------------------------------
(* Authentication with credentials of two users. *)

AuthUsers == {"u1", "u2"}
AuthCreds == {"c1", "c2", "c3"}

\* Each user has registered one credential: c1 is u1's, c2 is u2's, and c3
\* is no credential of the store.
InitAuth ==
    /\ users = [u \in Users |-> [present |-> TRUE, max_yubikeys |-> MaxKeys]]
    /\ yubikeys = [c \in CredIds |->
                     IF c = "c1" THEN [rowid |-> 1, user_id |-> "u1",
                                       sign_count |-> 0, is_primary |-> TRUE]
                     ELSE IF c = "c2" THEN [rowid |-> 2, user_id |-> "u2",
                                            sign_count |-> 0, is_primary |-> TRUE]
                     ELSE NoRow]
    /\ session = NoState
    /\ issued = 0
    /\ th = [t \in Threads |-> Idle]
    /\ credentials = EmptyFile
    /\ now = 0
    /\ hist = [user_ids |-> {}, issued_at |-> [c \in 1..MaxChal |-> 0],
               failed |-> {}, uses |-> [c \in 1..MaxChal |-> 0]]
    /\ seeds = [s \in SeedIds |-> NoSeed]
    /\ yubikey_salts = {}
    /\ webauthn_challenges = {}
    /\ app_session = [b \in Browsers |-> NoSession]
    /\ encrypted_seeds = {}
    /\ succeeded = {}
    /\ config = DefaultConfig
    /\ drawn = 0
    /\ envelope = NoEnvelope
    /\ made = NoMade
    /\ result = NoResult
    /\ produced = <<>>
    /\ committed = {}
    /\ pending = {}
    /\ calls = 0
    /\ last = NoTransaction
    /\ NoProcess

AuthStep(t) ==
    \/ authenticate_get(t)
    \/ authenticate_sign_count(t)
    \/ authenticate_user(t)
    \/ authenticate_last_login(t)
    \/ authenticate_success(t)
    \/ Return(t)

NextAuth ==
    \/ \E u \in AuthUsers : User_delete(u)
    \/ \E u \in AuthUsers : generate_authentication_options(u)
    \/ \E t \in Threads, c \in AuthCreds, rc \in 1..issued, a \in BOOLEAN :
          verify_authentication_response(t, c, rc, a)
    \/ \E t \in Threads : AuthStep(t)

SpecAuth == InitAuth /\ [][NextAuth]_vars

\* C23: an authentication for user_id succeeds only if the lookup of the
\* credential id of the response found a credential owned by user_id; for an
\* unknown id or a credential of another user the request fails at the lookup
\* and changes no sign counter and no user row (last login).
C23_AuthenticationNeedsOwnCredential ==
    [][\A t \in Threads :
          /\ (At(t, "authenticate_get") /\ th'[t] # th[t]
                /\ th[t].cid \notin UserKeys(yubikeys, th[t].uid))
                => (th'[t].pc = "done" /\ ~ th'[t].res
                      /\ users' = users /\ yubikeys' = yubikeys)
          /\ Ends(t, "authenticate", TRUE) => th[t].y.user_id = th[t].uid]_vars

\* An authentication of one user with the credential of another user has
\* been refused, and so has one with a credential id that is not stored.
C23_Witness ==
    /\ th["t1"].pc = "done" /\ th["t1"].op = "authenticate" /\ ~ th["t1"].res
    /\ Present(yubikeys[th["t1"].cid])
    /\ yubikeys[th["t1"].cid].user_id # th["t1"].uid
    /\ UserKeys(yubikeys, th["t1"].uid) # {}
    /\ th["t2"].pc = "done" /\ th["t2"].op = "authenticate" /\ ~ th["t2"].res
    /\ ~ Present(yubikeys[th["t2"].cid])

-----------------------------------------------------------------------------
(* Deletion of a user who owns credentials, salts, seeds and a challenge. *)

NextCascade ==
    \/ \E u \in AuthUsers : User_delete(u)
    \/ \E u \in AuthUsers, s \in SeedIds : Seed_create(s, u)
    \/ \E c \in AuthCreds : YubiKeySalt_create(c)
    \/ \E u \in AuthUsers : security_generate_authentication_options(u)

SpecCascade == InitAuth /\ [][NextCascade]_vars

\* C24: after User.delete has succeeded, no credential, salt, seed or
\* pending challenge owned by that user remains in the store.
C24_DeleteCascades ==
    [][\A u \in Users :
          (users[u].present /\ ~ users'[u].present)
          => /\ UserKeys(yubikeys', u) = {}
             /\ \A c \in UserKeys(yubikeys, u) : c \notin yubikey_salts'
             /\ \A s \in SeedIds : seeds'[s].user_id # u
             /\ u \notin webauthn_challenges']_vars

-----------------------------------------------------------------------------
(* Ceremonies of the file-backed WebAuthnManager. *)

ManagerUsers == {"u1"}

ManagerStep(t) ==
    \/ _store_challenge_read(t)
    \/ _store_challenge_write(t)
    \/ verify_registration_challenge(t)
    \/ _store_credential_read(t)
    \/ _store_credential_write(t)
    \/ verify_authentication_credential(t)
    \/ verify_authentication_challenge(t)
    \/ _update_sign_count_read(t)
    \/ _update_sign_count_write(t)
    \/ _remove_challenge_read(t)
    \/ _remove_challenge_write(t)
    \/ Return(t)

NextManager ==
    \/ \E t \in Threads, u \in ManagerUsers :
          \/ WebAuthnManager_generate_registration_options_for_user(t, u)
          \/ WebAuthnManager_generate_authentication_options(t, u)
    \/ \E t \in Threads, u \in ManagerUsers, rc \in 1..issued, ok \in BOOLEAN :
          WebAuthnManager_verify_registration_response(t, u, rc, 0, ok)
    \/ \E t \in Threads, u \in ManagerUsers, rc \in 1..issued,
          n \in 0..MaxCount, ok \in BOOLEAN :
          WebAuthnManager_verify_authentication_response(t, u, rc, n, ok)
    \/ \E t \in Threads : ManagerStep(t)

SpecManager == Init /\ [][NextManager]_vars

\* The same ceremonies with well-formed responses while the clock runs.
NextExpiry ==
    \/ Tick
    \/ \E t \in Threads, u \in ManagerUsers :
          \/ WebAuthnManager_generate_registration_options_for_user(t, u)
          \/ WebAuthnManager_generate_authentication_options(t, u)
    \/ \E t \in Threads, u \in ManagerUsers, rc \in 1..issued :
          \/ WebAuthnManager_verify_registration_response(t, u, rc, 0, TRUE)
          \/ WebAuthnManager_verify_authentication_response(t, u, rc, 1, TRUE)
    \/ \E t \in Threads : ManagerStep(t)

SpecExpiry == Init /\ [][NextExpiry]_vars

\* Completions with and without a pending challenge: the ceremonies on the
\* credentials file with well-formed responses, the route that finds no
\* stored state, and the lookup of utils/security.py.
NextPending ==
    \/ \E t \in Threads, u \in ManagerUsers :
          \/ WebAuthnManager_generate_registration_options_for_user(t, u)
          \/ WebAuthnManager_generate_authentication_options(t, u)
          \/ security_verify_registration_response(t, u)
    \/ \E t \in Threads, u \in ManagerUsers, rc \in 1..MaxChal :
          \/ WebAuthnManager_verify_registration_response(t, u, rc, 0, TRUE)
          \/ WebAuthnManager_verify_authentication_response(t, u, rc, 1, TRUE)
    \/ \E t \in Threads, c \in CounterCreds : verify_authentication_no_state(t, c)
    \/ \E t \in Threads : ManagerStep(t)

SpecPending == Init /\ [][NextPending]_vars

\* C7: each issued challenge completes at most one ceremony.
C7_ChallengeSingleUse == \A c \in 1..MaxChal : hist.uses[c] <= 1

\* The response of thread t passes verification in this step.
Verified(t) ==
    /\ th[t].pc \in {"verify_registration_challenge", "verify_authentication_challenge"}
    /\ th'[t].pc \in {"_store_credential_read", "_update_sign_count_read"}

\* C8: once verification of a response has failed over a challenge, that
\* challenge is consumed: a completion that arrives afterwards and presents
\* the same challenge is not verified again.
C8_FailedChallengeConsumed ==
    [][\A t \in Threads : Verified(t) => ~ th[t].again]_vars

\* C10: a completion attempted more than CeremonyTTL seconds after its
\* challenge was issued is rejected.
C10_ExpiredChallengeRejected ==
    [][\A t \in Threads :
          Verified(t) =>
             th[t].at <= hist.issued_at[credentials.challenges[th[t].uid]] + CeremonyTTL]_vars

\* Thread t's step ends its request as refused for want of a pending
\* challenge: nothing is verified and no record changes.
Refused(t) ==
    /\ th'[t].pc = "done"
    /\ ~ th'[t].res
    /\ th'[t].err = "ChallengeExpired"
    /\ UNCHANGED <<users, yubikeys, credentials, hist>>

\* C22: a completion of a registration or of an authentication that finds
\* no pending challenge for its subject fails with ChallengeExpired, invokes
\* no verification and changes no credential, counter or user record.
C22_NoChallengeNoCeremony ==
    [][\A t \in Threads :
          /\ (/\ th[t].pc \in {"verify_registration_challenge",
                               "verify_authentication_challenge"}
              /\ th'[t] # th[t]
              /\ credentials.challenges[th[t].uid] = 0) => Refused(t)
          /\ (At(t, "idle") /\ th'[t].op = "authenticate" /\ session = NoState)
              => Refused(t)
          /\ (At(t, "idle") /\ th'[t].op = "security_verify_registration_response")
              => Refused(t)]_vars
-----------------------------------------------------------------------------
(* app.py: the session of a browser and the routes that show a stored seed. *)
(* A request carries its browser's session; the manager's ceremony runs in  *)
(* the request's thread and the route writes the session when it returns.   *)

SessionUsers == {"u1", "u2"}

\* /begin-authentication: generate_authentication_options(user_id) (no
\* credential -> 400, nothing changes), then session["auth_user_id"].
begin_authentication(t, b, u) ==
    /\ At(t, "idle")
    /\ credentials.users[u].registered
    /\ issued < MaxChal
    /\ issued' = issued + 1
    /\ Goto(t, [Call(t, "generate_authentication_options", NoCred, u)
                   EXCEPT !.pc = "_store_challenge_read", !.m = issued + 1,
                          !.sid = b])
    /\ UNCHANGED <<dbvars, session, filevars, secretvars, appvars, cryptovars, txvars, procvars>>

\* /complete-authentication: without session["auth_user_id"] 400; otherwise
\* verify_authentication_response(session["auth_user_id"], request.json).
complete_authentication(t, b, rc, new_sign_count, ok) ==
    /\ At(t, "idle")
    /\ LET user_id == app_session[b].auth_user_id IN
       IF user_id = NoUser
       THEN Goto(t, [Idle EXCEPT !.pc = "done", !.op = "complete_authentication",
                                 !.sid = b, !.err = "NoAuthentication"])
       ELSE Goto(t, [Call(t, "verify_authentication_response", NoCred, user_id)
                        EXCEPT !.pc = "verify_authentication_credential",
                               !.rc = rc, !.n = new_sign_count, !.p = ok,
                               !.at = now, !.again = rc \in hist.failed,
                               !.sid = b])
    /\ UNCHANGED <<dbvars, session, issued, filevars, secretvars, appvars, cryptovars, txvars, procvars>>

\* The route's statements after the manager returned: /begin-authentication
\* sets session["auth_user_id"], /complete-authentication sets
\* session["authenticated_user_id"]; an exception of the manager skips them.
app_response(t) ==
    /\ At(t, "done")
    /\ LET b == th[t].sid IN
       app_session' =
          IF b = NoBrowser \/ ~ th[t].res THEN app_session
          ELSE IF th[t].op = "generate_authentication_options"
          THEN [app_session EXCEPT ![b].auth_user_id = th[t].uid]
          ELSE IF th[t].op = "verify_authentication_response"
          THEN [app_session EXCEPT ![b].authenticated_user_id = th[t].uid]
          ELSE app_session
    /\ Goto(t, Idle)
    /\ UNCHANGED <<dbvars, session, issued, filevars, secretvars,
                   encrypted_seeds, succeeded, cryptovars, txvars, procvars>>

\* A /view-seed that trusts session["auth_user_id"], set when an
\* authentication begins.
view_seed_begun(t, b) ==
    /\ At(t, "idle")
    /\ LET user_id == app_session[b].auth_user_id IN
       IF user_id = NoUser
       THEN Goto(t, [Idle EXCEPT !.pc = "done", !.op = "view_seed", !.sid = b,
                                 !.err = "Redirect"])
       ELSE Goto(t, [Idle EXCEPT !.pc = "done", !.op = "view_seed", !.sid = b,
                                 !.uid = user_id,
                                 !.res = user_id \in encrypted_seeds])
    /\ UNCHANGED <<dbvars, session, issued, filevars, secretvars, appvars, cryptovars, txvars, procvars>>

\* /view-seed: without session["authenticated_user_id"] a redirect;
\* otherwise retrieve_encrypted_seed(user_id), which finds the user's entry
\* or not.
view_seed(t, b) ==
    /\ At(t, "idle")
    /\ LET user_id == app_session[b].authenticated_user_id IN
       IF user_id = NoUser
       THEN Goto(t, [Idle EXCEPT !.pc = "done", !.op = "view_seed", !.sid = b,
                                 !.err = "Redirect"])
       ELSE Goto(t, [Idle EXCEPT !.pc = "done", !.op = "view_seed", !.sid = b,
                                 !.uid = user_id,
                                 !.res = user_id \in encrypted_seeds])
    /\ UNCHANGED <<dbvars, session, issued, filevars, secretvars, appvars, cryptovars, txvars, procvars>>

\* /logout: session.clear()
logout(b) ==
    /\ app_session[b] # NoSession
    /\ app_session' = [app_session EXCEPT ![b] = NoSession]
    /\ UNCHANGED <<dbvars, session, issued, th, filevars, secretvars,
                   encrypted_seeds, succeeded, cryptovars, txvars, procvars>>

\* api/seeds.py /retrieve: without session['authenticated'] 401; without
\* session['username'] 400; otherwise retrieve_encrypted_seed(username, key).
retrieve_seed(t, b) ==
    /\ At(t, "idle")
    /\ IF ~ app_session[b].authenticated
       THEN Goto(t, [Idle EXCEPT !.pc = "done", !.op = "retrieve_seed",
                                 !.sid = b, !.err = "Unauthorized"])
       ELSE Goto(t, [Idle EXCEPT !.pc = "done", !.op = "retrieve_seed",
                                 !.sid = b, !.uid = app_session[b].username,
                                 !.res = app_session[b].username # NoUser])
    /\ UNCHANGED <<dbvars, session, issued, filevars, secretvars, appvars, cryptovars, txvars, procvars>>

\* Two users who have registered a credential with the file-backed manager
\* and stored a seed.
InitSession ==
    /\ users = [u \in Users |-> NoUserRow]
    /\ yubikeys = [c \in CredIds |-> NoRow]
    /\ session = NoState
    /\ issued = 0
    /\ th = [t \in Threads |-> Idle]
    /\ credentials = [users |-> [u \in Users |->
                                    IF u \in SessionUsers
                                    THEN [registered |-> TRUE, sign_count |-> 0]
                                    ELSE NoCredential],
                      challenges |-> [u \in Users |-> 0]]
    /\ now = 0
    /\ hist = [user_ids |-> SessionUsers, issued_at |-> [c \in 1..MaxChal |-> 0],
               failed |-> {}, uses |-> [c \in 1..MaxChal |-> 0]]
    /\ seeds = [s \in SeedIds |-> NoSeed]
    /\ yubikey_salts = {}
    /\ webauthn_challenges = {}
    /\ app_session = [b \in Browsers |-> NoSession]
    /\ encrypted_seeds = SessionUsers
    /\ succeeded = {}
    /\ config = DefaultConfig
    /\ drawn = 0
    /\ envelope = NoEnvelope
    /\ made = NoMade
    /\ result = NoResult
    /\ produced = <<>>
    /\ committed = {}
    /\ pending = {}
    /\ calls = 0
    /\ last = NoTransaction
    /\ NoProcess

SessionStep(t) ==
    \/ _store_challenge_read(t)
    \/ _store_challenge_write(t)
    \/ verify_authentication_credential(t)
    \/ verify_authentication_challenge(t)
    \/ _update_sign_count_read(t)
    \/ _update_sign_count_write(t)
    \/ _remove_challenge_read(t)
    \/ _remove_challenge_write(t)
    \/ app_response(t)

\* The ceremonies run in the threads of CeremonyThreads, one-step requests
\* in every thread.
CeremonyThreads == {"t1"}

NextSession ==
    \/ \E t \in CeremonyThreads, b \in Browsers, u \in SessionUsers :
          begin_authentication(t, b, u)
    \/ \E t \in CeremonyThreads, b \in Browsers, rc \in 1..issued :
          complete_authentication(t, b, rc, 1, TRUE)
    \/ \E t \in Threads, b \in Browsers :
          \/ view_seed(t, b)
          \/ retrieve_seed(t, b)
    \/ \E b \in Browsers : logout(b)
    \/ \E t \in Threads : SessionStep(t)

SpecSession == InitSession /\ [][NextSession]_vars

\* Thread t's step ends a request that returns the stored seed of a user.
SeedReturned(t) ==
    /\ th[t].pc # "done"
    /\ th'[t].pc = "done"
    /\ th'[t].op \in {"view_seed", "retrieve_seed"}
    /\ th'[t].res

\* C25: a stored seed is decrypted and returned for user u to a session only
\* after an authentication of u has succeeded in that session.
C25_SeedOnlyAfterAuthentication ==
    [][\A t \in Threads :
          SeedReturned(t) => <<th'[t].sid, th'[t].uid>> \in succeeded]_vars

\* A session has been shown the seed of the user who authenticated in it.
C25_Witness ==
    \E t \in Threads :
       /\ th[t].pc = "done"
       /\ th[t].op = "view_seed"
       /\ th[t].res
       /\ <<th[t].sid, th[t].uid>> \in succeeded
-----------------------------------------------------------------------------
(* routes/seed_routes.py: the requests of two users on each other's seeds. *)

\* login_required has put the stored user u into g.user; the route names
\* seed s.
get_seed(t, s, u) ==
    /\ At(t, "idle")
    /\ users[u].present
    /\ Goto(t, [Call(t, "get_seed", NoCred, u) EXCEPT
                   !.pc = "Seed_get_by_id", !.seed_id = s])
    /\ UNCHANGED <<dbvars, session, issued, filevars, secretvars, appvars, cryptovars, txvars, procvars>>

decrypt_seed_data(t, s, u) ==
    /\ At(t, "idle")
    /\ users[u].present
    /\ Goto(t, [Call(t, "decrypt_seed_data", NoCred, u) EXCEPT
                   !.pc = "Seed_get_by_id", !.seed_id = s])
    /\ UNCHANGED <<dbvars, session, issued, filevars, secretvars, appvars, cryptovars, txvars, procvars>>

\* The request carries a seed phrase, whose envelope is encrypted_seed.
update_seed(t, s, u, encrypted_seed) ==
    /\ At(t, "idle")
    /\ users[u].present
    /\ Goto(t, [Call(t, "update_seed", NoCred, u) EXCEPT
                   !.pc = "Seed_get_by_id", !.seed_id = s, !.n = encrypted_seed])
    /\ UNCHANGED <<dbvars, session, issued, filevars, secretvars, appvars, cryptovars, txvars, procvars>>

delete_seed(t, s, u) ==
    /\ At(t, "idle")
    /\ users[u].present
    /\ Goto(t, [Call(t, "delete_seed", NoCred, u) EXCEPT
                   !.pc = "Seed_get_by_id", !.seed_id = s])
    /\ UNCHANGED <<dbvars, session, issued, filevars, secretvars, appvars, cryptovars, txvars, procvars>>

\* seed_id is a uuid4: an id is never given to a second seed, so the seeds
\* an id can name have one owner.
SeedOwner(s) == IF s = "s1" THEN "u1" ELSE "u2"

SeedStep(t) ==
    \/ Seed_get_by_id(t)
    \/ Seed_update_last_accessed(t)
    \/ Seed_update(t)
    \/ Seed_delete(t)
    \/ Return(t)

NextSeeds ==
    \/ \E s \in SeedIds : Seed_create(s, SeedOwner(s))
    \/ \E t \in Threads, s \in SeedIds, u \in AuthUsers :
          \/ get_seed(t, s, u)
          \/ decrypt_seed_data(t, s, u)
          \/ update_seed(t, s, u, 2)
          \/ delete_seed(t, s, u)
    \/ \E t \in Threads : SeedStep(t)

SpecSeeds == InitAuth /\ [][NextSeeds]_vars

\* Thread t's request names a stored seed of another user than its own.
ForeignSeed(t) ==
    /\ seeds[th[t].seed_id] # NoSeed
    /\ seeds[th[t].seed_id].user_id # th[t].uid

\* C26: a request to read, decrypt, update or delete a seed made by another
\* user than its owner is refused as forbidden and leaves every seed,
\* last_accessed included, as it is; the statements that read out or write a
\* seed run only for its owner.
C26_SeedOnlyForItsOwner ==
    [][\A t \in Threads :
          /\ (At(t, "Seed_get_by_id") /\ th'[t] # th[t] /\ ForeignSeed(t))
                => (/\ th'[t].pc = "done"
                    /\ ~ th'[t].res
                    /\ th'[t].err = "Forbidden"
                    /\ seeds' = seeds)
          /\ (/\ th[t].pc \in {"Seed_update_last_accessed", "Seed_update",
                               "Seed_delete"}
              /\ th'[t] # th[t])
                => (/\ ~ ForeignSeed(t)
                    /\ \A s \in SeedIds \ {th[t].seed_id} : seeds'[s] = seeds[s])]_vars

\* A request on a stored seed of another user has been refused.
C26_Witness ==
    \E t \in Threads :
       /\ th[t].pc = "done"
       /\ th[t].op \in {"get_seed", "decrypt_seed_data", "update_seed", "delete_seed"}
       /\ th[t].err = "Forbidden"
       /\ seeds[th[t].seed_id] # NoSeed
       /\ seeds[th[t].seed_id].user_id # th[t].uid
-----------------------------------------------------------------------------
(* Encryption and decryption of seeds under every configuration. *)

Configs == [key_derivation : KeyDerivations, master_key : Secrets]
Corruptions == {"ciphertext", "nonce", "not_json", "no_nonce", "no_salt"}

InitCrypto ==
    /\ users = [u \in Users |-> NoUserRow]
    /\ yubikeys = [c \in CredIds |-> NoRow]
    /\ session = NoState
    /\ issued = 0
    /\ th = [t \in Threads |-> Idle]
    /\ credentials = EmptyFile
    /\ now = 0
    /\ hist = [user_ids |-> {}, issued_at |-> [c \in 1..MaxChal |-> 0],
               failed |-> {}, uses |-> [c \in 1..MaxChal |-> 0]]
    /\ seeds = [s \in SeedIds |-> NoSeed]
    /\ yubikey_salts = {}
    /\ webauthn_challenges = {}
    /\ app_session = [b \in Browsers |-> NoSession]
    /\ encrypted_seeds = {}
    /\ succeeded = {}
    /\ config \in Configs
    /\ drawn = 0
    /\ envelope = NoEnvelope
    /\ made = NoMade
    /\ result = NoResult
    /\ produced = <<>>
    /\ committed = {}
    /\ pending = {}
    /\ calls = 0
    /\ last = NoTransaction
    /\ NoProcess

NextCrypto ==
    \/ \E cfg \in Configs : SetConfig(cfg)
    \/ \E seed_phrase \in Plaintexts : encrypt_seed(seed_phrase)
    \/ decrypt_seed
    \/ \E mnemonic \in Plaintexts, encryption_key \in Secrets :
          store_encrypted_seed(mnemonic, encryption_key)
    \/ \E encryption_key \in Secrets : retrieve_encrypted_seed(encryption_key)
    \/ \E how \in Corruptions : Corrupt(how)

SpecCrypto == InitCrypto /\ [][NextCrypto]_vars

\* This step is a decryption of a stored envelope.
Decrypts == result' # result

\* C27: decrypting an envelope as encrypt stored it, with the secret material
\* and the key-derivation configuration it was made under, returns exactly
\* the plaintext that was encrypted, for every plaintext and configuration;
\* the salt and the nonce are taken from the envelope alone.
C27_RoundTrip ==
    [][(Decrypts /\ envelope = made.envelope /\ result'.cfg = made.cfg)
          => (result'.ok /\ result'.plaintext = made.plaintext)]_vars

\* The empty plaintext has come back from an envelope made with PBKDF2.
C27_Witness ==
    /\ result.ok
    /\ result.call = "decrypt_seed"
    /\ result.cfg.key_derivation = "PBKDF2"
    /\ result.cfg = made.cfg
    /\ envelope = made.envelope
    /\ made.plaintext = ""
    /\ result.plaintext = ""

\* The one answer of a decryption that failed: what the caller sees when
\* the authentication tag does not match.
DecryptionFailed(call) ==
    IF call = "decrypt_seed" THEN "InvalidTag"
    ELSE "Invalid encryption key or corrupted data"

\* C28: a decryption with another secret than the envelope was made with, or
\* of an envelope with an altered ciphertext or nonce, or of a malformed
\* envelope, returns no plaintext and gives the one answer DecryptionFailed.
C28_OneFailure ==
    [][(Decrypts /\ (result'.cfg.master_key # made.cfg.master_key
                        \/ envelope # made.envelope))
          => (~ result'.ok /\ result'.error = DecryptionFailed(result'.call))]_vars

\* C29: the envelopes made so far have pairwise different (salt, nonce), and
\* the salt of each was drawn for it, under every configuration.
C29_FreshSaltAndNonce ==
    /\ \A i, j \in DOMAIN produced : i # j => produced[i] # produced[j]
    /\ \A i \in DOMAIN produced : produced[i].salt.src = "urandom"
-----------------------------------------------------------------------------
(* Transactions of the DatabaseManager. *)

QueryLists == UNION {[1..n -> Kinds] : n \in 1..MaxQueries}

NextTransaction ==
    \/ \E query \in Succeeding, commit \in BOOLEAN : execute_query(query, commit)
    \/ \E queries \in QueryLists : execute_transaction(queries)

SpecTransaction == Init /\ [][NextTransaction]_vars

\* The statements of the last execute_transaction.
ListStatements == {Statement(last.call, i) : i \in DOMAIN last.queries}

\* C30: execute_transaction is all-or-nothing: when a query of the list has
\* failed it has returned False and no statement of the list has an effect on
\* the database; when all succeeded it has returned True and the effect of
\* every statement of the list is committed.
C30_AllOrNothing ==
    last.call # 0 =>
       IF \E i \in DOMAIN last.queries : last.queries[i] = "raises"
       THEN /\ ~ last.returned
            /\ ListStatements \cap (committed \cup pending) = {}
       ELSE /\ last.returned
            /\ ListStatements \subseteq committed
-----------------------------------------------------------------------------
(* models/database.py: construction of the DatabaseManager singleton.  A    *)
(* construction DatabaseManager(db_path) runs __new__ (under the class      *)
(* lock) and then __init__ (under no lock) on what __new__ returned.        *)

\* Most constructions the model lets the threads start.
MaxConstructions == 3

\* The db_path arguments: a relative and an absolute one.
Paths == {"a.db", "/b.db"}
\* os.path.abspath: a relative path is joined to the working directory.
abspath(path) == IF path = "a.db" THEN "/cwd/a.db" ELSE path

\* DatabaseManager(db_path) is called.
DatabaseManager(t, db_path) ==
    /\ At(t, "idle")
    /\ dbm.started < MaxConstructions
    /\ Goto(t, [Call(t, "__new__", NoCred, NoUser) EXCEPT !.db_path = db_path])
    /\ dbm' = [dbm EXCEPT !.started = @ + 1]
    /\ UNCHANGED <<dbvars, session, issued, filevars, secretvars, appvars, cryptovars, txvars, memvars>>

\* __new__, all of it under cls._lock: the instance is made if there is none.
__new__(t) ==
    /\ At(t, "__new__")
    /\ dbm' = IF dbm._instance THEN dbm
              ELSE [dbm EXCEPT !._instance = TRUE, !._initialized = FALSE,
                               !.instances = @ + 1, !.first = th[t].db_path]
    /\ Goto(t, [th[t] EXCEPT !.pc = "__init__"])
    /\ UNCHANGED <<dbvars, session, issued, filevars, secretvars, appvars, cryptovars, txvars, memvars>>

\* __init__: "if hasattr(self, '_initialized') and self._initialized: return".
__init__(t) ==
    /\ At(t, "__init__")
    /\ IF dbm._initialized
       THEN /\ Done(t, TRUE)
            /\ dbm' = [dbm EXCEPT !.returned = @ + 1]
       ELSE /\ Goto(t, [th[t] EXCEPT !.pc = "__init__db_path"])
            /\ UNCHANGED dbm
    /\ UNCHANGED <<dbvars, session, issued, filevars, secretvars, appvars, cryptovars, txvars, memvars>>

\* "self.db_path = os.path.abspath(db_path)".
__init__db_path(t) ==
    /\ At(t, "__init__db_path")
    /\ dbm' = [dbm EXCEPT !.db_path = abspath(th[t].db_path)]
    /\ Goto(t, [th[t] EXCEPT !.pc = "__init__initialized"])
    /\ UNCHANGED <<dbvars, session, issued, filevars, secretvars, appvars, cryptovars, txvars, memvars>>

\* "self._initialized = True" and the rest of __init__.
__init__initialized(t) ==
    /\ At(t, "__init__initialized")
    /\ dbm' = [dbm EXCEPT !._initialized = TRUE, !.inits = @ + 1, !.returned = @ + 1]
    /\ Done(t, TRUE)
    /\ UNCHANGED <<dbvars, session, issued, filevars, secretvars, appvars, cryptovars, txvars, memvars>>

NextSingleton ==
    \E t \in Threads :
        \/ \E db_path \in Paths : DatabaseManager(t, db_path)
        \/ __new__(t)
        \/ __init__(t)
        \/ __init__db_path(t)
        \/ __init__initialized(t)
        \/ Return(t)

SpecSingleton == Init /\ [][NextSingleton]_vars

\* C31: the DatabaseManager is a singleton under concurrency: the
\* constructions, from any thread and with any db_path, have made one
\* instance, that instance has been initialised once, and once a construction
\* has returned its db_path is the db_path of the first construction.
C31_Singleton ==
    /\ dbm.instances <= 1
    /\ dbm.inits <= 1
    /\ dbm.returned > 0 =>
          /\ dbm.instances = 1
          /\ dbm.inits = 1
          /\ dbm.db_path = abspath(dbm.first)
-----------------------------------------------------------------------------
(* Authentication and set-primary requests of a user with two credentials. *)

FrameUsers == {"u1"}
FrameCreds == {"c1", "c2"}

\* u1 has registered c1 and then c2: c1 is the primary credential.
InitKeys ==
    /\ users = [u \in Users |-> [present |-> TRUE, max_yubikeys |-> MaxKeys]]
    /\ yubikeys = [c \in CredIds |->
                     IF c = "c1" THEN [rowid |-> 1, user_id |-> "u1",
                                       sign_count |-> 0, is_primary |-> TRUE]
                     ELSE IF c = "c2" THEN [rowid |-> 2, user_id |-> "u1",
                                            sign_count |-> 0, is_primary |-> FALSE]
                     ELSE NoRow]
    /\ session = NoState
    /\ issued = 0
    /\ th = [t \in Threads |-> Idle]
    /\ credentials = EmptyFile
    /\ now = 0
    /\ hist = [user_ids |-> {}, issued_at |-> [c \in 1..MaxChal |-> 0],
               failed |-> {}, uses |-> [c \in 1..MaxChal |-> 0]]
    /\ seeds = [s \in SeedIds |-> NoSeed]
    /\ yubikey_salts = {}
    /\ webauthn_challenges = {}
    /\ app_session = [b \in Browsers |-> NoSession]
    /\ encrypted_seeds = {}
    /\ succeeded = {}
    /\ config = DefaultConfig
    /\ drawn = 0
    /\ envelope = NoEnvelope
    /\ made = NoMade
    /\ result = NoResult
    /\ produced = <<>>
    /\ committed = {}
    /\ pending = {}
    /\ calls = 0
    /\ last = NoTransaction
    /\ NoProcess

FrameStep(t) ==
    \/ authenticate_get(t)
    \/ authenticate_sign_count(t)
    \/ authenticate_user(t)
    \/ authenticate_last_login(t)
    \/ authenticate_success(t)
    \/ set_primary_get(t)
    \/ set_as_primary_unset(t)
    \/ set_as_primary_set(t)
    \/ Return(t)

NextFrame ==
    \/ \E u \in FrameUsers : generate_authentication_options(u)
    \/ \E t \in Threads, c \in FrameCreds, rc \in 1..issued, a \in BOOLEAN :
          verify_authentication_response(t, c, rc, a)
    \/ \E t \in Threads, c \in FrameCreds, u \in FrameUsers :
          set_primary_yubikey(t, c, u)
    \/ \E t \in Threads : FrameStep(t)

SpecFrame == InitKeys /\ [][NextFrame]_vars

\* The columns of row other than sign_count (and last_used, which the model
\* does not hold).
OtherColumns(row) == [row EXCEPT !.sign_count = 0]

\* C32: a call of update_sign_count changes only sign_count and last_used of
\* its credential: every other stored column of every row, is_primary among
\* them, is after the call what it was before, also when the object the call
\* is made through was loaded before a set_as_primary on another credential.
C32_UpdateSignCountFrame ==
    [][\A t \in Threads :
          (At(t, "authenticate_sign_count") /\ th'[t] # th[t])
          => /\ \A c \in CredIds : OtherColumns(yubikeys'[c]) = OtherColumns(yubikeys[c])
             /\ \A c \in CredIds \ {th[t].cid} : yubikeys'[c] = yubikeys[c]]_vars

\* C33: a YubiKey.create that returns None has left the store unchanged: the
\* step it fails in changes no row and no earlier statement of the call has
\* changed one; with is_primary = True it has not cleared the primary flag of
\* the user's primary credential.
C33_FailedCreateChangesNothing ==
    [][\A t \in Threads :
          (th[t].op = "create" /\ th[t].pc # "done" /\ th'[t].pc = "done"
              /\ ~ th'[t].res)
          => (yubikeys' = yubikeys /\ ~ th[t].wrote)]_vars

\* C34: an authentication that succeeds has updated the sign counter of the
\* credential named by the response, and no step of an authentication
\* changes the row of another credential, also for a user with two
\* credentials.
C34_UpdatesTheResponseCredential ==
    [][\A t \in Threads :
          (th[t].op = "authenticate" /\ th'[t] # th[t])
          => /\ \A c \in CredIds \ {th[t].cid} : yubikeys'[c] = yubikeys[c]
             /\ (At(t, "authenticate_success") /\ th'[t].res) => th[t].acc]_vars
-----------------------------------------------------------------------------
(* Begin ceremonies of two users on the file-backed WebAuthnManager. *)

BeginUsers == {"u1", "u2"}

NextBegin ==
    \/ Tick
    \/ \E t \in Threads, u \in BeginUsers :
          WebAuthnManager_generate_registration_options_for_user(t, u)
    \/ \E t \in Threads :
          \/ _store_challenge_read(t)
          \/ _store_challenge_write(t)
          \/ Return(t)

SpecBegin == Init /\ [][NextBegin]_vars

\* C35: when begin ceremonies of two users run concurrently, the
\* read-modify-write of the credentials file by which one stores its
\* challenge leaves the pending challenge of every other user in the file.
C35_NoChallengeLost ==
    [][\A t \in Threads :
          (At(t, "_store_challenge_write") /\ th'[t] # th[t])
          => \A u \in Users \ {th[t].uid} :
                credentials'.challenges[u] = credentials.challenges[u]]_vars
-----------------------------------------------------------------------------
(* services/secure_memory_service.py (and the same class in app.py):        *)
(* SecureMemoryManager.  Every method body runs under "with self._lock", a  *)
(* threading.Lock, which is not reentrant: a body is one step that needs    *)
(* the lock free.  A threading.Timer is a thread of its own: it waits for   *)
(* its interval and then, unless cancelled by then, calls clear(key).       *)

\* Timer.cancel(): stops a timer that still waits; one that has fired goes on.
cancel(tm, i) ==
    IF i # 0 /\ tm[i].state = "waiting" THEN [tm EXCEPT ![i].state = "cancelled"] ELSE tm

\* The timers started so far, and the Timer object the next store makes.
Started == {i \in 1..MaxTimers : timer[i].state # "none"}
NewTimer == Cardinality(Started) + 1

\* A call of the manager returns r; for get, v is the value returned.
Returned(t, v, r) ==
    Goto(t, [Idle EXCEPT !.pc = "done", !.op = th[t].op, !.key = th[t].key,
                         !.value = v, !.res = r])

SecureMemoryManager_store(t, key, value) ==
    /\ At(t, "idle")
    /\ Cardinality(Started) + Cardinality({o \in Threads : th[o].pc = "store"}) < MaxTimers
    /\ Goto(t, [Call(t, "store", NoCred, NoUser) EXCEPT !.key = key, !.value = value])
    /\ UNCHANGED <<dbvars, session, issued, filevars, secretvars, appvars, cryptovars, txvars, procvars>>

SecureMemoryManager_get(t, key) ==
    /\ At(t, "idle")
    /\ Goto(t, [Call(t, "get", NoCred, NoUser) EXCEPT !.key = key])
    /\ UNCHANGED <<dbvars, session, issued, filevars, secretvars, appvars, cryptovars, txvars, procvars>>

\* clear(key), or clear() with key = None.
SecureMemoryManager_clear(t, key) ==
    /\ At(t, "idle")
    /\ Goto(t, [Call(t, "clear", NoCred, NoUser) EXCEPT !.key = key])
    /\ UNCHANGED <<dbvars, session, issued, filevars, secretvars, appvars, cryptovars, txvars, procvars>>

SecureMemoryManager_extend_timeout(t, key) ==
    /\ At(t, "idle")
    /\ Goto(t, [Call(t, "extend_timeout", NoCred, NoUser) EXCEPT !.key = key])
    /\ UNCHANGED <<dbvars, session, issued, filevars, secretvars, appvars, cryptovars, txvars, procvars>>

\* store(key, value), called by a request or by extend_timeout: with
\* self._lock: cancel the key's timer, set the value, start a new Timer(
\* self.timeout, self.clear, args=[key]).  Called by extend_timeout, the call
\* returns into it, which returns True and leaves its own "with" block.
store(t) ==
    /\ th[t].pc \in {"store", "extend_timeout_store"}
    /\ _lock = "free"
    /\ Cardinality(Started) < MaxTimers
    /\ _storage' = [_storage EXCEPT ![th[t].key] = th[t].value]
    /\ timer' = [cancel(timer, _timers[th[t].key]) EXCEPT ![NewTimer] =
                    [key |-> th[t].key, state |-> "waiting"]]
    /\ _timers' = [_timers EXCEPT ![th[t].key] = NewTimer]
    /\ Returned(t, th[t].value, TRUE)
    /\ UNCHANGED <<dbvars, session, issued, filevars, secretvars, appvars, cryptovars, txvars, dbm, _lock>>

\* get(key): with self._lock: return self._storage.get(key)
get(t) ==
    /\ At(t, "get")
    /\ _lock = "free"
    /\ Returned(t, _storage[th[t].key], TRUE)
    /\ UNCHANGED <<dbvars, session, issued, filevars, secretvars, appvars, cryptovars, txvars, procvars>>

\* The body of clear(key): the entry and the timer of the key are removed,
\* the timer cancelled; of clear(): all timers cancelled, both dicts emptied.
RECURSIVE cancel_all(_, _)
cancel_all(tm, S) ==
    IF S = {} THEN tm
    ELSE LET i == CHOOSE x \in S : TRUE IN cancel_all(cancel(tm, i), S \ {i})

clear_body(key) ==
    IF key # NoStoreKey
    THEN /\ _storage' = [_storage EXCEPT ![key] = None]
         /\ timer' = cancel(timer, _timers[key])
         /\ _timers' = [_timers EXCEPT ![key] = 0]
    ELSE /\ _storage' = [k \in Keys |-> None]
         /\ timer' = cancel_all(timer, {_timers[k] : k \in Keys})
         /\ _timers' = [k \in Keys |-> 0]

\* clear(key=None) called by a request.
clear(t) ==
    /\ At(t, "clear")
    /\ _lock = "free"
    /\ clear_body(th[t].key)
    /\ Returned(t, None, TRUE)
    /\ UNCHANGED <<dbvars, session, issued, filevars, secretvars, appvars, cryptovars, txvars, dbm, _lock>>

\* extend_timeout(key): with self._lock: an absent key returns False (and
\* the lock is released); for a present key value = self._storage[key] and
\* self.store(key, value) is called with the lock held.
extend_timeout(t) ==
    /\ At(t, "extend_timeout")
    /\ _lock = "free"
    /\ IF _storage[th[t].key] = None
       THEN /\ Returned(t, None, FALSE)
            /\ UNCHANGED _lock
       ELSE /\ Goto(t, [th[t] EXCEPT !.pc = "extend_timeout_store",
                                     !.value = _storage[th[t].key]])
            /\ _lock' = t
    /\ UNCHANGED <<dbvars, session, issued, filevars, secretvars, appvars, cryptovars, txvars, dbm, _storage, _timers, timer>>

\* Timer.run: the interval has passed and the timer was not cancelled: it
\* calls self.function, clear(key), which goes for the lock.
Timer_run(i) ==
    /\ timer[i].state = "waiting"
    /\ timer' = [timer EXCEPT ![i].state = "fired"]
    /\ UNCHANGED <<dbvars, session, issued, th, filevars, secretvars, appvars, cryptovars, txvars, dbm, _storage, _timers, _lock>>

\* clear(key) in the Timer thread.
Timer_clear(i) ==
    /\ timer[i].state = "fired"
    /\ _lock = "free"
    /\ \E tm \in {[timer EXCEPT ![i].state = "done"]} :
          /\ _storage' = [_storage EXCEPT ![timer[i].key] = None]
          /\ timer' = cancel(tm, _timers[timer[i].key])
          /\ _timers' = [_timers EXCEPT ![timer[i].key] = 0]
    /\ UNCHANGED <<dbvars, session, issued, th, filevars, secretvars, appvars, cryptovars, txvars, dbm, _lock>>

MemoryStep(t) ==
    \/ store(t)
    \/ get(t)
    \/ clear(t)
    \/ extend_timeout(t)
    \/ Return(t)

NextMemory ==
    \/ \E t \in Threads, key \in Keys, value \in Values :
          SecureMemoryManager_store(t, key, value)
    \/ \E t \in Threads, key \in Keys : SecureMemoryManager_get(t, key)
    \/ \E t \in Threads, key \in Keys \cup {NoStoreKey} :
          SecureMemoryManager_clear(t, key)
    \/ \E t \in Threads, key \in Keys : SecureMemoryManager_extend_timeout(t, key)
    \/ \E t \in Threads : MemoryStep(t)
    \/ \E i \in 1..MaxTimers : Timer_run(i) \/ Timer_clear(i)

\* Every thread that is inside a call is scheduled, and so is every Timer
\* thread: its interval passes, and it gets the lock when the lock is free.
SpecMemory ==
    /\ Init /\ [][NextMemory]_vars
    /\ \A t \in Threads : WF_vars(MemoryStep(t))
    /\ \A i \in 1..MaxTimers : WF_vars(Timer_run(i)) /\ WF_vars(Timer_clear(i))

\* C36: extend_timeout(key) always terminates, and with the lock released:
\* a thread that is inside extend_timeout gets to its return, and the lock
\* is not held by it then.
C36_ExtendTimeoutTerminates ==
    \A t \in Threads :
        (th[t].op = "extend_timeout" /\ ~ At(t, "done"))
            ~> (At(t, "done") /\ _lock # t)

\* C37: the timer started for an earlier value of a key never removes the
\* value stored later: a Timer thread that runs clear(key) removes the entry
\* of the key only if it is the timer the key has now.
C37_OldTimerKeepsNewValue ==
    [][\A i \in 1..MaxTimers :
          (timer[i].state = "fired" /\ timer'[i].state = "done"
              /\ _storage'[timer[i].key] # _storage[timer[i].key])
          => _timers[timer[i].key] = i]_vars

\* A call of extend_timeout for key is under way.
Extending(key) ==
    \E t \in Threads : th[t].op = "extend_timeout" /\ th[t].key = key /\ ~ At(t, "done")

\* C38: every value placed in the manager is eventually removed: a key that
\* holds a value gets to hold none, unless extend_timeout is called for it.
C38_EventuallyRemoved ==
    \A key \in Keys :
        (_storage[key] # None) ~> (_storage[key] = None \/ Extending(key))
-----------------------------------------------------------------------------
(* routes/yubikey_routes.py: the salt routes.  Each runs behind              *)
(* login_required, which answers 401 unless the token names a stored user   *)
(* u (g.user).  The model holds at most one salt per credential, so a       *)
(* salt_id stands for the credential of its salt.                           *)

SaltUsers == {"u1", "u2"}
SaltCreds == {"c1", "c2", "c3"}

\* The route named op, called by user u for credential c, answers: r is TRUE
\* for 200 / 201.
Answered(t, op, c, u, r) ==
    Goto(t, [Call(t, op, c, u) EXCEPT !.pc = "done", !.res = r])

\* POST /register {credential_id}: YubiKeySalt.create(credential_id, salt,
\* purpose); None (the credential is not stored) -> 500, else 201 with the salt.
register_yubikey(t, c, u) ==
    /\ At(t, "idle")
    /\ users[u].present
    /\ yubikey_salts' = IF Present(yubikeys[c]) THEN yubikey_salts \cup {c}
                        ELSE yubikey_salts
    /\ Answered(t, "register_yubikey", c, u, Present(yubikeys[c]))
    /\ UNCHANGED <<dbvars, session, issued, filevars, seeds, webauthn_challenges,
                   appvars, cryptovars, txvars, procvars>>

\* GET /salts?credential_id=c: YubiKeySalt.get_by_credential_id; 200 with the
\* list of the salts (r: the list is not empty).
get_yubikey_salts(t, c, u) ==
    /\ At(t, "idle")
    /\ users[u].present
    /\ Answered(t, "get_yubikey_salts", c, u, c \in yubikey_salts)
    /\ UNCHANGED <<dbvars, session, issued, filevars, secretvars, appvars, cryptovars, txvars, procvars>>

\* GET /salt/<salt_id>: YubiKeySalt.get_by_id; none -> 404; else
\* update_last_used and 200 with the salt.
get_yubikey_salt(t, c, u) ==
    /\ At(t, "idle")
    /\ users[u].present
    /\ Answered(t, "get_yubikey_salt", c, u, c \in yubikey_salts)
    /\ UNCHANGED <<dbvars, session, issued, filevars, secretvars, appvars, cryptovars, txvars, procvars>>

\* DELETE /salt/<salt_id>: YubiKeySalt.get_by_id; none -> 404; else
\* salt.delete() and 200.
delete_yubikey_salt(t, c, u) ==
    /\ At(t, "idle")
    /\ users[u].present
    /\ yubikey_salts' = yubikey_salts \ {c}
    /\ Answered(t, "delete_yubikey_salt", c, u, c \in yubikey_salts)
    /\ UNCHANGED <<dbvars, session, issued, filevars, seeds, webauthn_challenges,
                   appvars, cryptovars, txvars, procvars>>

NextSalts ==
    \/ \E t \in Threads, c \in SaltCreds, u \in SaltUsers :
          \/ register_yubikey(t, c, u)
          \/ get_yubikey_salts(t, c, u)
          \/ get_yubikey_salt(t, c, u)
          \/ delete_yubikey_salt(t, c, u)
    \/ \E t \in Threads : Return(t)

SpecSalts == InitAuth /\ [][NextSalts]_vars

SaltRoutes == {"register_yubikey", "get_yubikey_salts", "get_yubikey_salt",
               "delete_yubikey_salt"}

\* C39: a salt route creates, returns or deletes a salt only of a credential
\* that the authenticated user owns.
C39_SaltOnlyForItsOwner ==
    [][\A t \in Threads :
          (At(t, "idle") /\ th'[t].op \in SaltRoutes /\ th'[t].res)
          => yubikeys[th'[t].cid].user_id = th'[t].uid]_vars
====
